---- MODULE Spec2Model ----
(***************************************************************************)
(* Gesture-DJ: the audio engine (src/lib/audio/AudioEngine.ts).            *)
(*                                                                         *)
(* Units.  Time (the AudioContext clock, track positions, timer delays)    *)
(* is counted in ticks of 1/TicksPerSecond seconds; gains are fixed-point  *)
(* with Unit = 1.0; EQ gains are whole dB; delay time is in milliseconds,  *)
(* the lowpass cutoff in Hz.                                               *)
(***************************************************************************)
EXTENDS Integers, Sequences, FiniteSets, TLC

VARIABLES
  now,        \* audioCtx.currentTime (the timers' clock runs with it)
  audioCtx,   \* AudioEngine.audioCtx # null (the two decks exist exactly then)
  decks,      \* AudioEngine.decks: deck id -> the Deck's fields
  decoding,   \* loadDeckFromFile calls awaiting decodeFile
  xfade,      \* history: the clamped position of the last setCrossfade applied, -1 before
  scn,        \* the resume scenario's script: its step, its inputs, the ticks left
  wall,       \* Date.now(), in milliseconds
  mapper,     \* the GestureMapper's fields
  hud,        \* the camera controller's refs, and what its last call returned or dispatched
  storage     \* localStorage: the item saved under gesturedj:calibration

vars == <<now, audioCtx, decks, decoding, xfade, scn, wall, mapper, hud, storage>>

----------------------------------------------------------------------------
\* Bounds of the model

\* the clock stops advancing here
MaxTime == 2
\* decodes in flight at once
MaxPending == 1
\* a decoded file f lasts BaseDur + f ticks
BaseDur == 1
\* clock resolution: ticks per second
TicksPerSecond == 250
\* the resume scenario advances the clock by 1 .. MaxAdvance ticks at a time
MaxAdvance == 2
\* the wall clock is looked at MaxFrames times after the start
MaxFrames == 5
\* the most samples one calibration record absorbs
MaxSamples == 3
\* the most mapFingerY calls in one behaviour
MaxMapCalls == 3
\* the most frame loops of one tracker that are followed
MaxLoops == 2
\* the animation frames the tracker's clock runs for
MaxRafs == 4
\* loadDeckFromFile calls that overlap
MaxOverlap == 2

----------------------------------------------------------------------------
\* Arithmetic helpers

Max(a, b) == IF a >= b THEN a ELSE b

Min(a, b) == IF a <= b THEN a ELSE b

\* const clamp = (v, a, b) => Math.max(a, Math.min(b, v))
clamp(v, a, b) == Max(a, Min(b, v))

\* 1.0 as a fixed-point gain
Unit == 1000

\* AudioEngine.fadeMs = 0.008 s, in milliseconds
fadeMs == 8

\* the fade window in ticks
FadeTicks == (fadeMs * TicksPerSecond) \div 1000

\* restartWithFade: ms = Math.max(1, Math.floor(fade * 1000)), as ticks
TimerTicks == (Max(1, fadeMs) * TicksPerSecond) \div 1000

\* jog: const maxStep = 5 (seconds per call), in ticks
maxStep == 5 * TicksPerSecond

DeckIds == {"A", "B"}

\* Files a user can pick: 0 does not decode, f > 0 decodes to buffer f
Files == 0 .. 2

BufferDuration(f) == BaseDur + f

\* the longest buffer
MaxDur == BaseDur + 2

----------------------------------------------------------------------------
\* AudioParam automation of a deck's output gain node

NoRamp == [active |-> FALSE, v0 |-> 0, t0 |-> 0, v1 |-> 0, t1 |-> 0]

\* AudioParam.setValueAtTime(v, t) with t the current time: the value steps to v;
\* a ramp still running now starts from (v, t)
setValueAtTime(p, v, t) ==
  [value |-> v,
   ramp  |-> IF p.ramp.active THEN [p.ramp EXCEPT !.v0 = v, !.t0 = t] ELSE p.ramp]

\* AudioParam.cancelScheduledValues(t) with t the current time: the pending ramp
\* end is removed
cancelScheduledValues(p, t) == [value |-> p.value, ramp |-> NoRamp]

\* AudioParam.linearRampToValueAtTime(v, tEnd), called right after a
\* setValueAtTime at time t
linearRampToValueAtTime(p, v, tEnd, t) ==
  [value |-> p.value,
   ramp  |-> [active |-> TRUE, v0 |-> p.value, t0 |-> t, v1 |-> v, t1 |-> tEnd]]

\* the parameter's value once the clock reads t
ParamAt(p, t) ==
  IF ~p.ramp.active THEN p
  ELSE IF t >= p.ramp.t1 THEN [value |-> p.ramp.v1, ramp |-> NoRamp]
  ELSE [value |-> p.ramp.v0
                  + ((p.ramp.v1 - p.ramp.v0) * (t - p.ramp.t0))
                    \div (p.ramp.t1 - p.ramp.t0),
        ramp  |-> p.ramp]

----------------------------------------------------------------------------
\* Deck

NoSource == [state |-> "none", offset |-> 0, loop |-> FALSE,
             loopStart |-> 0, loopEnd |-> 0]

NoTimer == [pending |-> FALSE, due |-> 0, offset |-> 0]

\* class Deck: field initialisers, constructor and initNodes; timers counts
\* the window.setTimeout callbacks of the deck that are neither run nor cleared
NewDeck ==
  [buffer |-> 0, peaks |-> 0, rms |-> 0, duration |-> 0,
   gain |-> [value |-> Unit, ramp |-> NoRamp],
   dryGain |-> Unit - 200, wetGain |-> 200,
   delay |-> 250, delayFeedbackGain |-> clamp(200, 0, 600), fxLowpass |-> 8000,
   lowEQ |-> 0, midEQ |-> 0, highEQ |-> 0,
   source |-> NoSource, live |-> 0,
   isPlaying |-> FALSE, position |-> 0, startTime |-> 0,
   restartTimer |-> NoTimer, timers |-> 0,
   loopEnabled |-> FALSE, loopStart |-> 0, loopEnd |-> 0,
   volumeVal |-> Unit,
   eq |-> [low |-> 0, mid |-> 0, high |-> 0],
   fx |-> [delayTime |-> 250, delayFeedback |-> 200, lowpassCutoff |-> 8000,
           reverbWet |-> 0, wet |-> 200]]

\* mutant of stopSourceIfAny: the pending restart timer is not cleared
stopSourceKeepTimer(dk) ==
  [dk EXCEPT !.live = IF dk.source.state = "started" THEN dk.live - 1 ELSE dk.live,
             !.source = NoSource,
             !.isPlaying = FALSE]

\* Deck.stopSourceIfAny
stopSourceIfAny(dk) ==
  [dk EXCEPT !.restartTimer = NoTimer,
             !.timers = IF dk.restartTimer.pending THEN @ - 1 ELSE @,
             !.live = IF dk.source.state = "started" THEN dk.live - 1 ELSE dk.live,
             !.source = NoSource,
             !.isPlaying = FALSE]

\* Deck.createSource: the new source is connected but not started
createSource(dk, offset) ==
  IF dk.buffer = 0 THEN dk
  ELSE LET s == stopSourceIfAny(dk)
       IN [s EXCEPT !.source =
             [state |-> "created", offset |-> offset, loop |-> s.loopEnabled,
              loopStart |-> IF s.loopEnabled THEN s.loopStart ELSE 0,
              loopEnd |-> IF s.loopEnabled
                          THEN (IF s.loopEnd # 0 THEN s.loopEnd
                                ELSE s.loopStart + TicksPerSecond)
                          ELSE 0]]

\* AudioBufferSourceNode.start(0, offset) on the deck's source
startSource(dk, offset) ==
  [dk EXCEPT !.source = [dk.source EXCEPT !.state = "started", !.offset = offset],
             !.live = dk.live + 1]

\* Deck.getPosition
getPosition(dk) ==
  IF ~audioCtx THEN dk.position
  ELSE IF dk.isPlaying THEN now - dk.startTime
  ELSE dk.position

\* AudioEngine.getCurrentTime
getCurrentTime(d) == IF ~audioCtx THEN 0 ELSE getPosition(decks[d])

\* mutant of loadBuffer: the buffer is replaced under the running source
loadBufferNoStop(dk, f) ==
  [dk EXCEPT !.buffer = f, !.position = 0,
             !.peaks = f, !.rms = f, !.duration = BufferDuration(f)]

\* Deck.loadBuffer
loadBuffer(dk, f) ==
  LET s == stopSourceIfAny([dk EXCEPT !.buffer = f, !.position = 0])
  IN [s EXCEPT !.peaks = f, !.rms = f, !.duration = BufferDuration(f)]

\* mutant of restartWithFade: the timer is set without clearing the pending one
restartWithFadeNoClear(dk, offset) ==
  LET g0 == setValueAtTime(cancelScheduledValues(dk.gain, now), dk.gain.value, now)
      g1 == linearRampToValueAtTime(g0, 0, now + FadeTicks, now)
  IN [dk EXCEPT !.gain = g1,
                !.timers = @ + 1,
                !.restartTimer = [pending |-> TRUE, due |-> now + TimerTicks,
                                  offset |-> offset]]

\* Deck.restartWithFade, the part that runs in the call: the ramp to 0 and the
\* timer, set after clearTimeout of a pending one
restartWithFade(dk, offset) ==
  LET g0 == setValueAtTime(cancelScheduledValues(dk.gain, now), dk.gain.value, now)
      g1 == linearRampToValueAtTime(g0, 0, now + FadeTicks, now)
  IN [dk EXCEPT !.gain = g1,
                !.timers = (IF dk.restartTimer.pending THEN @ - 1 ELSE @) + 1,
                !.restartTimer = [pending |-> TRUE, due |-> now + TimerTicks,
                                  offset |-> offset]]

\* mutant of restartTimerFired: the new source starts without zeroing the gain
restartTimerFiredNoZero(dk) ==
  LET offset == dk.restartTimer.offset
      c  == createSource(stopSourceIfAny(dk), offset)
      st == startSource(c, offset)
      g1 == linearRampToValueAtTime(setValueAtTime(c.gain, c.gain.value, now),
                                    st.volumeVal, now + FadeTicks, now)
  IN IF c.source.state = "none" THEN c
     ELSE [st EXCEPT !.startTime = now - offset,
                     !.isPlaying = TRUE,
                     !.gain = g1,
                     !.restartTimer = NoTimer]

\* Deck.restartWithFade, the setTimeout callback
restartTimerFired(dk) ==
  LET offset == dk.restartTimer.offset
      c  == createSource(stopSourceIfAny(dk), offset)
      g0 == setValueAtTime(c.gain, 0, now)
      st == startSource([c EXCEPT !.gain = g0], offset)
      g1 == linearRampToValueAtTime(g0, st.volumeVal, now + FadeTicks, now)
  IN IF c.source.state = "none" THEN c
     ELSE [st EXCEPT !.startTime = now - offset,
                     !.isPlaying = TRUE,
                     !.gain = g1,
                     !.restartTimer = NoTimer]

\* mutant of play: playback starts from 0, not from the stored position
playFromZero(dk) ==
  IF dk.buffer = 0 \/ dk.isPlaying THEN dk
  ELSE LET c == createSource(dk, 0)
       IN IF c.source.state = "none" THEN c
          ELSE [startSource(c, 0) EXCEPT
                  !.startTime = now,
                  !.gain = setValueAtTime(c.gain, c.volumeVal, now),
                  !.isPlaying = TRUE]

\* Deck.play
play(dk) ==
  IF dk.buffer = 0 \/ dk.isPlaying THEN dk
  ELSE LET startAt == dk.position % BufferDuration(dk.buffer)
           c == createSource(dk, startAt)
       IN IF c.source.state = "none" THEN c
          ELSE [startSource(c, startAt) EXCEPT
                  !.startTime = now - startAt,
                  !.gain = setValueAtTime(c.gain, c.volumeVal, now),
                  !.isPlaying = TRUE]

\* Deck.pause
pause(dk) ==
  IF ~dk.isPlaying THEN dk
  ELSE stopSourceIfAny([dk EXCEPT !.position = Max(0, now - dk.startTime)])

\* Deck.seek
seek(dk, timeSec) ==
  IF dk.buffer = 0 THEN dk
  ELSE LET dur == BufferDuration(dk.buffer)
           t == clamp(timeSec, 0, IF dur # 0 THEN dur ELSE timeSec)
           s == [dk EXCEPT !.position = t]
       IN IF s.isPlaying THEN restartWithFade(s, t) ELSE s

\* Deck.jog: the position the call moves to
jogTarget(e, deltaSec, dur) == clamp(e + clamp(deltaSec, -maxStep, maxStep), 0, dur)

\* Deck.jog
jog(dk, deltaSec) ==
  IF dk.buffer = 0 THEN dk
  ELSE LET newPos == jogTarget(IF dk.isPlaying THEN getPosition(dk) ELSE dk.position,
                               deltaSec, BufferDuration(dk.buffer))
       IN IF dk.isPlaying THEN restartWithFade(dk, newPos) ELSE seek(dk, newPos)

\* mutant of setVolume: the value is stored and applied as given
setVolumeNoClamp(dk, v) ==
  [dk EXCEPT !.volumeVal = v, !.gain = setValueAtTime(dk.gain, v, now)]

\* Deck.setVolume
setVolume(dk, v) ==
  LET vol == clamp(v, 0, Unit)
  IN [dk EXCEPT !.volumeVal = vol, !.gain = setValueAtTime(dk.gain, vol, now)]

\* Deck.setGainValue (the gain node always exists after initNodes)
setGainValue(dk, v) ==
  [dk EXCEPT !.gain = setValueAtTime(dk.gain, clamp(v, 0, Unit), now)]

\* Deck.setEQ
setEQ(dk, e) ==
  LET l == clamp(e.low, -12, 12)
      m == clamp(e.mid, -12, 12)
      h == clamp(e.high, -12, 12)
  IN [dk EXCEPT !.eq = [low |-> l, mid |-> m, high |-> h],
                !.lowEQ = l, !.midEQ = m, !.highEQ = h]

\* mutant of setFX: the merged settings reach the nodes as given
setFXNoClamp(dk, s) ==
  LET fx == [k \in DOMAIN dk.fx |-> IF k \in DOMAIN s THEN s[k] ELSE dk.fx[k]]
  IN [dk EXCEPT !.fx = fx,
                !.delay = fx.delayTime,
                !.delayFeedbackGain = fx.delayFeedback,
                !.fxLowpass = fx.lowpassCutoff,
                !.wetGain = fx.wet,
                !.dryGain = Unit - fx.wet]

\* Deck.setFX: s holds the fields of the Partial<FXSettings> passed
setFX(dk, s) ==
  LET fx == [k \in DOMAIN dk.fx |-> IF k \in DOMAIN s THEN s[k] ELSE dk.fx[k]]
  IN [dk EXCEPT !.fx = fx,
                !.delay = clamp(fx.delayTime, 0, 5000),
                !.delayFeedbackGain = clamp(fx.delayFeedback, 0, 600),
                !.fxLowpass = clamp(fx.lowpassCutoff, 40, 20000),
                !.wetGain = clamp(fx.wet, 0, Unit),
                !.dryGain = Unit - clamp(fx.wet, 0, Unit)]

\* mutant of setLoop: the window starts at the stored position
setLoopAtStored(dk, on, lengthSec) ==
  LET cur == dk.position
      end == cur + (IF lengthSec # 0 THEN lengthSec ELSE TicksPerSecond)
  IN IF on
     THEN [dk EXCEPT !.loopEnabled = TRUE, !.loopStart = cur,
                     !.loopEnd = IF dk.buffer # 0 /\ end > BufferDuration(dk.buffer)
                                 THEN BufferDuration(dk.buffer) ELSE end]
     ELSE [dk EXCEPT !.loopEnabled = FALSE]

\* Deck.setLoop; lengthSec = 0 stands for a length that is omitted or 0
setLoop(dk, on, lengthSec) ==
  LET cur == getPosition(dk)
      end == cur + (IF lengthSec # 0 THEN lengthSec ELSE TicksPerSecond)
      l == IF on
           THEN [dk EXCEPT !.loopEnabled = TRUE, !.loopStart = cur,
                           !.loopEnd = IF dk.buffer # 0 /\ end > BufferDuration(dk.buffer)
                                       THEN BufferDuration(dk.buffer) ELSE end]
           ELSE [dk EXCEPT !.loopEnabled = FALSE]
  IN IF l.isPlaying
     THEN LET playPos == getPosition(l)
              c == createSource(l, playPos)
          IN IF c.source.state = "none" THEN c
             ELSE [startSource(c, playPos) EXCEPT !.startTime = now - playPos]
     ELSE l

----------------------------------------------------------------------------
\* AudioEngine

\* Math.cos(k * (Math.PI / 2) / XSteps) rounded to fixed point, k = 0 .. XSteps
CosTable == <<1000, 981, 924, 831, 707, 556, 383, 195, 0>>

\* the crossfader position x is k / XSteps
XSteps == Len(CosTable) - 1

\* Math.cos(t * Math.PI * 0.5) for t = k / XSteps
cosQuarter(k) == CosTable[k + 1]

\* mutant of crossfadeGains: a linear crossfade law
crossfadeGainsLinear(x) ==
  LET t == clamp(x, 0, XSteps)
  IN <<Unit - (t * Unit) \div XSteps, (t * Unit) \div XSteps>>

\* AudioEngine.setCrossfade: the pair (leftGain, rightGain)
crossfadeGains(x) ==
  LET t == clamp(x, 0, XSteps)
  IN <<cosQuarter(t), cosQuarter(XSteps - t)>>

\* mutant of getOrCreateContext: the decks are created anew on every call
getOrCreateContextAlways == [d \in DeckIds |-> NewDeck]

\* AudioEngine.getOrCreateContext: the decks the engine holds after the call,
\* created if the context did not exist
getOrCreateContext == IF audioCtx THEN decks ELSE [d \in DeckIds |-> NewDeck]

\* the pending decode at index i is taken out
Remove(q, i) == SubSeq(q, 1, i - 1) \o SubSeq(q, i + 1, Len(q))

\* AudioEngine.loadDeckFromFile up to its await: decodeFile creates the context
\* and starts decoding
LoadDeckFromFile(d, f) ==
  /\ Len(decoding) < MaxPending
  /\ audioCtx' = TRUE
  /\ decks' = getOrCreateContext
  /\ decoding' = Append(decoding, [deck |-> d, file |-> f])
  /\ UNCHANGED <<now, xfade, scn, wall, mapper, hud, storage>>

\* AudioEngine.loadDeckFromFile up to its await, called while other calls may
\* wait; every call that waits for deck d notes, for the record, the file of
\* the call issued last for d
StartLoad(d, f) ==
  /\ Len(decoding) < MaxOverlap
  /\ audioCtx' = TRUE
  /\ decks' = getOrCreateContext
  /\ decoding' = Append([k \in 1 .. Len(decoding) |->
                           IF decoding[k].deck = d
                           THEN [decoding[k] EXCEPT !.latest = f] ELSE decoding[k]],
                        [deck |-> d, file |-> f, latest |-> f])
  /\ UNCHANGED <<now, xfade, scn, wall, mapper, hud, storage>>

\* decodeAudioData resolves: loadDeckFromFile goes on to Deck.loadBuffer
DecodeResolved(i) ==
  /\ i \in 1 .. Len(decoding)
  /\ decoding[i].file # 0
  /\ decks' = [decks EXCEPT ![decoding[i].deck] = loadBuffer(@, decoding[i].file)]
  /\ decoding' = Remove(decoding, i)
  /\ UNCHANGED <<now, audioCtx, xfade, scn, wall, mapper, hud, storage>>

\* mutant of DecodeRejected: the failed load still stops the deck
DecodeRejectedStopsDeck(i) ==
  /\ i \in 1 .. Len(decoding)
  /\ decoding[i].file = 0
  /\ decks' = [decks EXCEPT ![decoding[i].deck] = stopSourceIfAny(@)]
  /\ decoding' = Remove(decoding, i)
  /\ UNCHANGED <<now, audioCtx, xfade, scn, wall, mapper, hud, storage>>

\* decodeAudioData rejects: loadDeckFromFile throws before Deck.loadBuffer
DecodeRejected(i) ==
  /\ i \in 1 .. Len(decoding)
  /\ decoding[i].file = 0
  /\ decoding' = Remove(decoding, i)
  /\ UNCHANGED <<now, audioCtx, decks, xfade, scn, wall, mapper, hud, storage>>

\* an engine call that creates the context and applies one Deck method
DeckCall(d, dk) ==
  /\ audioCtx' = TRUE
  /\ decks' = [getOrCreateContext EXCEPT ![d] = dk]
  /\ UNCHANGED <<now, decoding, xfade, scn, wall, mapper, hud, storage>>

\* AudioEngine.playDeck
PlayDeck(d) == DeckCall(d, play(getOrCreateContext[d]))

\* AudioEngine.pauseDeck
PauseDeck(d) == DeckCall(d, pause(getOrCreateContext[d]))

\* AudioEngine.seekDeck
SeekDeck(d, t) == DeckCall(d, seek(getOrCreateContext[d], t))

\* AudioEngine.jogDeck
JogDeck(d, delta) == DeckCall(d, jog(getOrCreateContext[d], delta))

\* AudioEngine.setDeckVolume
SetDeckVolume(d, v) == DeckCall(d, setVolume(getOrCreateContext[d], v))

\* AudioEngine.setDeckEQ
SetDeckEQ(d, e) == DeckCall(d, setEQ(getOrCreateContext[d], e))

\* AudioEngine.setDeckFX
SetDeckFX(d, s) == DeckCall(d, setFX(getOrCreateContext[d], s))

\* AudioEngine.setDeckLoop
SetDeckLoop(d, on, len) == DeckCall(d, setLoop(getOrCreateContext[d], on, len))

\* AudioEngine.setCrossfade: nothing happens before the decks exist
SetCrossfade(x) ==
  /\ IF ~audioCtx
     THEN UNCHANGED <<decks, xfade>>
     ELSE /\ decks' = [decks EXCEPT !["A"] = setGainValue(@, crossfadeGains(x)[1]),
                                    !["B"] = setGainValue(@, crossfadeGains(x)[2])]
          /\ xfade' = clamp(x, 0, XSteps)
  /\ UNCHANGED <<now, audioCtx, decoding, scn, wall, mapper, hud, storage>>

\* the window.setTimeout callback of restartWithFade runs, on time or late
RestartTimerFires(d) ==
  /\ decks[d].restartTimer.pending
  /\ now >= decks[d].restartTimer.due
  /\ decks' = [decks EXCEPT ![d] = restartTimerFired(@)]
  /\ UNCHANGED <<now, audioCtx, decoding, xfade, scn, wall, mapper, hud, storage>>

\* the audio clock advances by one tick; the gain ramps follow it
AdvanceClock ==
  /\ now' = now + 1
  /\ decks' = [d \in DeckIds |-> [decks[d] EXCEPT !.gain = ParamAt(@, now + 1)]]

\* the clock of the interleaved specifications, bounded
Tick ==
  /\ now < MaxTime
  /\ AdvanceClock
  /\ UNCHANGED <<audioCtx, decoding, xfade, scn, wall, mapper, hud, storage>>

\* the audio clock runs on by n ticks with no call in between
Elapse(n) ==
  /\ now' = now + n
  /\ decks' = [d \in DeckIds |-> [decks[d] EXCEPT !.gain = ParamAt(@, now + n)]]
  /\ UNCHANGED <<audioCtx, decoding, xfade, scn, wall, mapper, hud, storage>>

----------------------------------------------------------------------------
\* GestureMapper (src/lib/vision/GestureMapper.ts) and the camera controller
\* (src/components/CameraHUD.tsx).  Date.now() is counted in milliseconds and
\* is positive; landmark coordinates x are in hundredths and y in thousandths
\* of the frame, the finger spread in hundredths, angles in milliradians.

\* Date.now() when the model starts
WallStart == 100

\* the time between two looks at the clock, in milliseconds
WallStep == 100

\* checkHold(id, condition, ms = 300): the default hold time
HoldMs == 300

\* Hands option maxNumHands ?? 2
MaxHands == 2

HandIndexes == 0 .. MaxHands - 1

Gestures == {"openPalm", "fist"}

\* the hold timer key `${gesture}_${i}_${deck}`
HoldId(g, i, d) == g \o "_" \o ToString(i) \o "_" \o d

HoldIds == {HoldId(g, i, d) : g \in Gestures, i \in HandIndexes, d \in DeckIds}

\* hold timer ids of the probe specification
ProbeIds == {HoldId("openPalm", 0, "A"), HoldId("fist", 1, "B")}

\* a key of holdTimers that is absent, or holds null
NoHold == 0

Fingers == {"thumb", "index", "middle", "ring"}

\* a finger range that is null
NoRange == [min |-> -1, max |-> -1]

\* no calibration record (null)
NoCalibration ==
  [sampleCount |-> -1, ranges |-> [f \in Fingers |-> NoRange], timestamp |-> 0]

\* a landmark that is missing from a hand
NoTip == -1

\* a key of lastSmoothed that is absent
NoSmooth == -1

\* a key of lastAssigned that is absent
NoDeck == "-"

\* a key of lastAngleRef that is absent
NoAngle == -9999

\* smoothingAlpha = 0.15, in hundredths
smoothingAlpha == 15

\* leftThresh = 0.45 and rightThresh = 0.55, in hundredths
leftThresh == 45

rightThresh == 55

\* localStorage.getItem returns null: nothing is saved under the key
NoItem == <<>>

\* the keys of a FingerRanges object, in the order they are written
FingerOrder == <<"thumb", "index", "middle", "ring">>

\* the place of a finger in FingerOrder
FingerPos(f) == CHOOSE k \in 1 .. Len(FingerOrder) : FingerOrder[k] = f

\* JSON.stringify of a calibration record: sampleCount, then the ranges in key
\* order, null as the empty list and an object as min, max, then timestamp
JSONstringify(c) ==
  <<c.sampleCount,
    [k \in 1 .. Len(FingerOrder) |->
       IF c.ranges[FingerOrder[k]] = NoRange THEN <<>>
       ELSE <<c.ranges[FingerOrder[k]].min, c.ranges[FingerOrder[k]].max>>],
    c.timestamp>>

\* JSON.parse of a saved item, as Calibration
JSONparse(raw) ==
  [sampleCount |-> raw[1],
   ranges |-> [f \in Fingers |->
                 IF raw[2][FingerPos(f)] = <<>> THEN NoRange
                 ELSE [min |-> raw[2][FingerPos(f)][1], max |-> raw[2][FingerPos(f)][2]]],
   timestamp |-> raw[3]]

\* localStorage.getItem(STORAGE_KEY) on the store st; ok: the store works
getItem(st, ok) == [threw |-> ~ok, raw |-> IF ok THEN st ELSE NoItem, st |-> st]

\* localStorage.setItem(STORAGE_KEY, raw) on the store st; ok: the store works
setItem(st, raw, ok) == [threw |-> ~ok, raw |-> raw, st |-> IF ok THEN raw ELSE st]

\* try { access } catch (e) {}: what was thrown is swallowed
tryCatch(access) == [access EXCEPT !.threw = FALSE]

\* GestureMapper.getSaved on the store st: the saved calibration, or null
getSaved(st, ok) ==
  LET r == tryCatch(getItem(st, ok))
  IN IF r.raw = NoItem THEN NoCalibration ELSE JSONparse(r.raw)

\* class GestureMapper: field initialisers
NewMapper ==
  [calibration |-> NoCalibration,
   lastSmoothed |-> [f \in Fingers |-> NoSmooth],
   holdTimers |-> [id \in HoldIds |-> NoHold],
   lastAssigned |-> [i \in HandIndexes |-> NoDeck]]

\* GestureMapper.load: the saved calibration, if any, becomes the calibration
\* in progress; a failing store leaves null
load(m, st, ok) ==
  LET r == tryCatch(getItem(st, ok))
  IN IF ~ok THEN [m EXCEPT !.calibration = NoCalibration]
     ELSE IF r.raw = NoItem THEN m
     ELSE [m EXCEPT !.calibration = JSONparse(r.raw)]

\* new GestureMapper(): the constructor calls load()
ConstructMapper(st, ok) == load(NewMapper, st, ok)

\* GestureMapper.getCalibration
getCalibration(m) == m.calibration

\* GestureMapper.startCalibration
startCalibration(m) ==
  [m EXCEPT !.calibration =
     [sampleCount |-> 0, ranges |-> [f \in Fingers |-> NoRange], timestamp |-> wall]]

\* mutant of finishCalibration: the store is written outside try
finishCalibrationNoTry(m, st, ok) ==
  IF m.calibration = NoCalibration
  THEN [m |-> m, st |-> st, out |-> NoCalibration, threw |-> FALSE]
  ELSE LET out == [m.calibration EXCEPT !.timestamp = wall]
           w == setItem(st, JSONstringify(out), ok)
       IN IF w.threw
          THEN [m |-> [m EXCEPT !.calibration = out], st |-> w.st,
                out |-> NoCalibration, threw |-> TRUE]
          ELSE [m |-> [m EXCEPT !.calibration = NoCalibration], st |-> w.st,
                out |-> out, threw |-> FALSE]

\* mutant of finishCalibration: the calibration in progress is kept
finishCalibrationKeeps(m, st, ok) ==
  IF m.calibration = NoCalibration
  THEN [m |-> m, st |-> st, out |-> NoCalibration, threw |-> FALSE]
  ELSE LET out == [m.calibration EXCEPT !.timestamp = wall]
           w == tryCatch(setItem(st, JSONstringify(out), ok))
       IN [m |-> [m EXCEPT !.calibration = out], st |-> w.st,
           out |-> out, threw |-> w.threw]

\* GestureMapper.finishCalibration: the mapper and the store after the call,
\* the value returned and whether the call raised
finishCalibration(m, st, ok) ==
  IF m.calibration = NoCalibration
  THEN [m |-> m, st |-> st, out |-> NoCalibration, threw |-> FALSE]
  ELSE LET out == [m.calibration EXCEPT !.timestamp = wall]
           w == tryCatch(setItem(st, JSONstringify(out), ok))
       IN [m |-> [m EXCEPT !.calibration = NoCalibration], st |-> w.st,
           out |-> out, threw |-> w.threw]

\* performance.now() counts in thirds of a millisecond
PerfPerMs == 3

\* HandTracker.fpsLimit
fpsLimit == 30

\* process: minDelta = 1000 / this.fpsLimit
minDelta == (1000 * PerfPerMs) \div fpsLimit

\* the time between two animation frames at 60 Hz, and half of it
RafStep == (1000 * PerfPerMs) \div 60

PerfSteps == {RafStep \div 2, RafStep}

LoopIds == 1 .. MaxLoops

\* no submission yet
NoSubmit == -1

\* a frame loop that does not exist, or has returned
NoLoop == [pc |-> "none", now |-> 0]

\* class HandTracker: field initialisers, with the video element's readyState
\* (ready: readyState >= 2), performance.now() (perf), the start() calls that
\* wait for the import (starting), the process loops (pc raf: waiting for its
\* animation frame; pc sending: waiting for hands.send, entered at now), and
\* for the record the loop times of the last two submissions to this.hands
\* since it was made or the tracker stopped, and whether the video was ready
\* at the last one; stopped: stop() has returned and start() was not called
\* since; sentStopped: the last submission was made in such a state; outcome,
\* called, raised, failedAt: how the last hands.send settled, whether the
\* result callback was called for it, whether an exception left the loop, and
\* the loop time of the last frame the detector failed on
NewTracker ==
  [running |-> FALSE,
   rafId |-> 0,
   lastProcessTime |-> 0,
   ready |-> FALSE,
   perf |-> 0,
   starting |-> 0,
   loops |-> [l \in LoopIds |-> NoLoop],
   last |-> NoSubmit,
   prev |-> NoSubmit,
   sentReady |-> TRUE,
   stopped |-> FALSE,
   sentStopped |-> FALSE,
   outcome |-> "",
   called |-> FALSE,
   raised |-> FALSE,
   failedAt |-> NoSubmit]

\* HandTracker.start, process: loop l runs up to its await of hands.send, or
\* to requestAnimationFrame, or returns
process(tr, l) ==
  IF ~tr.running THEN [tr EXCEPT !.loops[l] = NoLoop]
  ELSE IF tr.ready /\ tr.perf - tr.lastProcessTime >= minDelta
  THEN [tr EXCEPT !.loops[l] = [pc |-> "sending", now |-> tr.perf],
                  !.prev = tr.last,
                  !.last = tr.perf,
                  !.sentReady = tr.ready,
                  !.sentStopped = tr.stopped]
  ELSE [tr EXCEPT !.loops[l] = [pc |-> "raf", now |-> 0], !.rafId = l]

\* how hands.send can settle: with results, which the onResults wrapper hands
\* to the callback; with results on which the callback throws; rejected
SendOutcomes == {"results", "callbackThrew", "rejected"}

\* mutant of sent: process without its try/catch around hands.send
sentNoCatch(tr, l, outcome) ==
  IF outcome = "rejected"
  THEN [tr EXCEPT !.loops[l] = NoLoop,
                  !.outcome = outcome,
                  !.called = FALSE,
                  !.raised = TRUE,
                  !.failedAt = tr.loops[l].now]
  ELSE [tr EXCEPT !.lastProcessTime = tr.loops[l].now,
                  !.loops[l] = [pc |-> "raf", now |-> 0],
                  !.rafId = l,
                  !.outcome = outcome,
                  !.called = TRUE]

\* process after hands.send has settled: the onResults wrapper has called the
\* callback inside try/catch if there were results; a rejection is caught;
\* then lastProcessTime = now and requestAnimationFrame
sent(tr, l, outcome) ==
  [tr EXCEPT !.lastProcessTime = tr.loops[l].now,
             !.loops[l] = [pc |-> "raf", now |-> 0],
             !.rafId = l,
             !.outcome = outcome,
             !.called = (outcome # "rejected"),
             !.failedAt = IF outcome = "rejected" THEN tr.loops[l].now ELSE @]

\* HandTracker.stop: cancelAnimationFrame reaches a loop only while the frame
\* it asked for last is still to come
stop(tr) ==
  [tr EXCEPT !.running = FALSE,
             !.rafId = 0,
             !.loops = [l \in LoopIds |->
                IF l = tr.rafId /\ tr.loops[l].pc = "raf" THEN NoLoop ELSE tr.loops[l]],
             !.last = NoSubmit,
             !.prev = NoSubmit,
             !.stopped = TRUE]

\* the calibration calls as their caller sees them, before any call; session:
\* startCalibration was called on this mapper and finishCalibration not since;
\* absorbed, count: the heights per finger and the number of samples absorbed
\* in the session; op, ok, out, threw: the last call, whether the store worked
\* during it, what it returned and whether it raised
NoSession ==
  [session |-> FALSE, absorbed |-> [f \in Fingers |-> {}], count |-> 0,
   op |-> "", ok |-> TRUE, out |-> NoCalibration, threw |-> FALSE]

\* the mapFingerY calls as their caller sees them, before any call; returned:
\* per finger, the value the last call for it returned; finger, y, prev,
\* result: the last call, what the call before it for that finger returned,
\* and what it returned; calls: the number of calls
NoMapCalls ==
  [returned |-> [f \in Fingers |-> NoSmooth], finger |-> "", y |-> 0,
   prev |-> NoSmooth, result |-> NoSmooth, calls |-> 0]

\* the controls mapHandsToControls starts from
NoControls ==
  [d \in DeckIds |->
     [assigned |-> FALSE, volume |-> Unit \div 2,
      eq |-> [low |-> 0, mid |-> 0, high |-> 0], scrubDelta |-> 0]]

\* the mapHandsToControls calls as their caller sees them, before any call;
\* hands, controls, deckOf: the hands of the last call, what it returned and
\* the deck it decided for each hand index; before: the smoothing accumulators
\* as they were before it; calls: the number of calls
NoMapped ==
  [hands |-> <<>>, controls |-> NoControls,
   deckOf |-> [i \in HandIndexes |-> NoDeck],
   before |-> [f \in Fingers |-> NoSmooth], calls |-> 0]

\* a second mapper that is given the same frames as the first but for the
\* hand on deck B, and the controls its last mapHandsToControls returned
NoTwin == [m |-> NewMapper, controls |-> NoControls]

\* the camera controller's refs; running: the tracker delivers frames; calls:
\* the engine calls of the last frame, made at time at; since: per hold id, the
\* time of the first frame of the unbroken run of frames in which that hand
\* was present on that deck with that gesture (0: the last frame broke the run);
\* seen: per hand index, its centroid and the deck the mapper decided in the
\* last frame (NoDeck: not in that frame); crossed: per hand index, the side of
\* the last threshold its centroid was at or beyond since the camera started;
\* assigned: per deck, the assigned flag mapHandsToControls returned in the
\* last frame;
\* ret: what the last probe call of checkHold returned; cal: the calibration
\* calls as their caller sees them; map: the mapFingerY calls as their caller
\* sees them; tracker: the HandTracker of trackerRef
NewHud ==
  [running |-> FALSE,
   holdTriggered |-> [id \in HoldIds |-> FALSE],
   lastAngle |-> [i \in HandIndexes |-> NoAngle],
   calls |-> <<>>,
   at |-> 0,
   since |-> [id \in HoldIds |-> 0],
   seen |-> [i \in HandIndexes |-> [x |-> 0, deck |-> NoDeck]],
   crossed |-> [i \in HandIndexes |-> NoDeck],
   assigned |-> [d \in DeckIds |-> FALSE],
   ret |-> [id |-> "", cond |-> FALSE, ms |-> 0, result |-> FALSE],
   cal |-> NoSession,
   map |-> NoMapCalls,
   mapped |-> NoMapped,
   twin |-> NoTwin,
   tracker |-> NewTracker]

\* mutant of checkHold: a false condition leaves the timer running
checkHoldPaused(m, id, condition, ms) ==
  IF condition
  THEN IF m.holdTimers[id] = NoHold
       THEN [m |-> [m EXCEPT !.holdTimers[id] = wall], result |-> FALSE]
       ELSE [m |-> m, result |-> wall - m.holdTimers[id] >= ms]
  ELSE [m |-> m, result |-> FALSE]

\* GestureMapper.checkHold: the mapper after the call and the value returned;
\* !this.holdTimers[id] holds for an absent key, for null and for 0
checkHold(m, id, condition, ms) ==
  IF condition
  THEN IF m.holdTimers[id] = NoHold
       THEN [m |-> [m EXCEPT !.holdTimers[id] = wall], result |-> FALSE]
       ELSE [m |-> m, result |-> wall - m.holdTimers[id] >= ms]
  ELSE [m |-> [m EXCEPT !.holdTimers[id] = NoHold], result |-> FALSE]

\* GestureMapper.resetHolds
resetHolds(m) == [m EXCEPT !.holdTimers = [id \in DOMAIN m.holdTimers |-> NoHold]]

\* mutant of decideDeckForHand: a single midpoint decides
decideDeckByMidpoint(m, handIndex, centroidX) ==
  [m |-> m, deck |-> IF centroidX < 50 THEN "A" ELSE "B"]

\* GestureMapper.decideDeckForHand: the mapper after the call and the deck
decideDeckForHand(m, handIndex, centroidX) ==
  LET prev == m.lastAssigned[handIndex]
  IN IF centroidX <= leftThresh
     THEN [m |-> [m EXCEPT !.lastAssigned[handIndex] = "A"], deck |-> "A"]
     ELSE IF centroidX >= rightThresh
     THEN [m |-> [m EXCEPT !.lastAssigned[handIndex] = "B"], deck |-> "B"]
     ELSE IF prev # NoDeck THEN [m |-> m, deck |-> prev]
     ELSE [m |-> m, deck |-> IF centroidX < 50 THEN "A" ELSE "B"]

\* mutant of absorbFinger: the range is the last height alone
absorbFingerLast(r, y) ==
  IF y = NoTip THEN r ELSE [min |-> y, max |-> y]

\* GestureMapper.absorbSample for one finger
absorbFinger(r, y) ==
  IF y = NoTip THEN r
  ELSE IF r = NoRange THEN [min |-> y, max |-> y]
  ELSE [min |-> Min(r.min, y), max |-> Max(r.max, y)]

\* GestureMapper.absorbSample; a hand without landmarks has no tips
absorbSample(m, hand) ==
  IF m.calibration = NoCalibration THEN m
  ELSE [m EXCEPT !.calibration =
          [@ EXCEPT !.ranges = [f \in Fingers |-> absorbFinger(@[f], IF hand.empty THEN NoTip ELSE hand.tips[f])],
                    !.sampleCount = @ + 1]]

\* mutant of mapTarget: the height is not inverted
mapTargetNotInverted(st, finger, y) ==
  IF st # NoCalibration /\ st.ranges[finger] # NoRange
  THEN LET r == st.ranges[finger]
           t == IF r.max = r.min THEN Unit \div 2
                ELSE ((y - r.min) * Unit) \div (r.max - r.min)
       IN clamp(t, 0, Unit)
  ELSE clamp(y, 0, Unit)

\* GestureMapper.mapFingerY before smoothing, against the saved calibration st
mapTarget(st, finger, y) ==
  IF st # NoCalibration /\ st.ranges[finger] # NoRange
  THEN LET r == st.ranges[finger]
           t == IF r.max = r.min THEN Unit \div 2
                ELSE ((y - r.min) * Unit) \div (r.max - r.min)
       IN clamp(Unit - t, 0, Unit)
  ELSE clamp(Unit - y, 0, Unit)

\* the body F with its parameter bound to the value of v, computed once
Bind(v, F(_)) == CHOOSE r \in {F(x) : x \in {v}} : TRUE

\* mutant of smoothed: the step is one and a half times the distance
smoothedOvershoot(last, mapped) ==
  LET prev == IF last = NoSmooth THEN mapped ELSE last
  IN prev + (150 * (mapped - prev)) \div 100

\* GestureMapper.mapFingerY, the exponential moving average: prev is
\* lastSmoothed[finger] ?? mapped
smoothed(last, mapped) ==
  LET prev == IF last = NoSmooth THEN mapped ELSE last
  IN prev + (smoothingAlpha * (mapped - prev)) \div 100

\* GestureMapper.mapFingerY: the mapper after the call and the smoothed value
mapFingerY(m, st, finger, y) ==
  Bind(smoothed(m.lastSmoothed[finger], mapTarget(st, finger, y)),
       LAMBDA sm : [m |-> [m EXCEPT !.lastSmoothed[finger] = sm], value |-> sm])

\* (value * 2 - 1) * 12, in whole dB
eqGain(value) == ((2 * value - Unit) * 12) \div Unit

\* mutant of tipValue: a missing tip is mapped as a tip at half height
tipValueHalfHeight(m, st, finger, hand) ==
  mapFingerY(m, st, finger, IF hand.tips[finger] # NoTip THEN hand.tips[finger] ELSE Unit \div 2)

\* mapHandsToControls: tip ? this.mapFingerY(finger, tip.y) : 0.5, as the
\* mapper after it and the value in 0 .. 1
tipValue(m, st, finger, hand) ==
  IF hand.tips[finger] # NoTip
  THEN mapFingerY(m, st, finger, hand.tips[finger])
  ELSE [m |-> m, value |-> Unit \div 2]

\* mapHandsToControls, the body of hands.forEach for the hand at index i
mapHand(c, st, i, hand) ==
  IF hand.empty THEN c
  ELSE Bind(decideDeckForHand(c.m, i, hand.x), LAMBDA dd :
       Bind(tipValue(dd.m, st, "index", hand), LAMBDA vi :
       Bind(tipValue(vi.m, st, "thumb", hand), LAMBDA vt :
       Bind(tipValue(vt.m, st, "middle", hand), LAMBDA vm :
       Bind(tipValue(vm.m, st, "ring", hand), LAMBDA vr :
         [m |-> vr.m,
          deckOf |-> [c.deckOf EXCEPT ![i] = dd.deck],
          controls |-> [c.controls EXCEPT ![dd.deck] =
             [assigned |-> TRUE, volume |-> vi.value,
              eq |-> [low |-> eqGain(vm.value), mid |-> eqGain(vr.value),
                      high |-> eqGain(vt.value)],
              scrubDelta |-> 0]]])))))

RECURSIVE mapHandsFrom(_, _, _, _)
\* mapHandsToControls, hands.forEach from index i on
mapHandsFrom(c, st, hands, i) ==
  IF i >= Len(hands) THEN c
  ELSE Bind(mapHand(c, st, i, hands[i + 1]),
            LAMBDA n : mapHandsFrom(n, st, hands, i + 1))

\* GestureMapper.mapHandsToControls: the mapper after the call, the controls
\* returned and, for the record, the deck decided for each hand index
mapHandsToControls(m, st, hands) ==
  Bind([m |-> m, controls |-> NoControls,
        deckOf |-> [i \in HandIndexes |-> NoDeck]],
       LAMBDA c : mapHandsFrom(c, st, hands, 0))

\* pi, in milliradians
PiMrad == 3142

RECURSIVE wrapAngle(_)
\* while (delta > PI) delta -= 2 PI; while (delta < -PI) delta += 2 PI
wrapAngle(delta) ==
  IF delta > PiMrad THEN wrapAngle(delta - 2 * PiMrad)
  ELSE IF delta < -PiMrad THEN wrapAngle(delta + 2 * PiMrad)
  ELSE delta

\* sensitivity = 2.5 seconds per radian: the scrub of an angle change, in ticks
scrubTicks(delta) == (delta * 25 * TicksPerSecond) \div 10000

\* the deck the camera controller attributes a hand to
hudDeck(hand) == IF hand.x < 50 THEN "A" ELSE "B"

\* spread > 0.25: open hand
isOpenPalm(hand) == hand.spread > 25

\* spread < 0.15: closed hand
isFist(hand) == hand.spread < 15

\* tracker callback: a hold gesture of hand i, given what checkHold returned;
\* the engine call op fires once per hold
holdFired(w, i, deck, id, cond, op, r) ==
  LET fire == r.result /\ ~w.hud.holdTriggered[id]
  IN [w EXCEPT !.m = r.m,
               !.ds[deck] = IF ~fire THEN @
                            ELSE IF op = "playDeck" THEN play(@) ELSE pause(@),
               !.calls = IF fire THEN Append(@, [op |-> op, deck |-> deck, hand |-> i])
                         ELSE @,
               !.hud.holdTriggered[id] = IF fire THEN TRUE
                                         ELSE IF ~cond THEN FALSE ELSE @]

\* tracker callback: a hold gesture of hand i
holdGesture(w, i, deck, g, cond, op) ==
  Bind(checkHold(w.m, HoldId(g, i, deck), cond, HoldMs),
       LAMBDA r : holdFired(w, i, deck, HoldId(g, i, deck), cond, op, r))

\* tracker callback: palm rotation of hand i to jog
palmJog(w, i, deck, hand) ==
  LET last == IF w.hud.lastAngle[i] = NoAngle THEN hand.angle ELSE w.hud.lastAngle[i]
      delta == wrapAngle(hand.angle - last)
  IN [w EXCEPT !.hud.lastAngle[i] = hand.angle,
               !.ds[deck] = IF delta # 0 THEN jog(@, scrubTicks(delta)) ELSE @,
               !.calls = IF delta # 0
                         THEN Append(@, [op |-> "jogDeck", deck |-> deck, hand |-> i])
                         ELSE @]

\* tracker callback: the body of hands.forEach for the hand at index i
hudHand(w, i, hand) ==
  IF hand.empty THEN w
  ELSE Bind(holdGesture(w, i, hudDeck(hand), "openPalm", isOpenPalm(hand), "playDeck"),
         LAMBDA w1 :
       Bind(holdGesture(w1, i, hudDeck(hand), "fist", isFist(hand), "pauseDeck"),
         LAMBDA w2 : palmJog(w2, i, hudDeck(hand), hand)))

RECURSIVE hudHandsFrom(_, _, _)
\* tracker callback: hands.forEach from index i on
hudHandsFrom(w, hands, i) ==
  IF i >= Len(hands) THEN w
  ELSE Bind(hudHand(w, i, hands[i + 1]), LAMBDA n : hudHandsFrom(n, hands, i + 1))

\* mutant of applyControls: the controls go to the engine assigned or not
applyControlsAlways(w, controls, d) ==
  [w EXCEPT !.ds[d] = setEQ(setVolume(@, controls[d].volume), controls[d].eq),
            !.calls = @ \o <<[op |-> "setDeckVolume", deck |-> d, hand |-> -1],
                             [op |-> "setDeckEQ", deck |-> d, hand |-> -1]>>]

\* tracker callback: the mapped controls of one deck go to the engine
applyControls(w, controls, d) ==
  IF ~controls[d].assigned THEN w
  ELSE [w EXCEPT !.ds[d] = setEQ(setVolume(@, controls[d].volume), controls[d].eq),
                 !.calls = @ \o <<[op |-> "setDeckVolume", deck |-> d, hand |-> -1],
                                  [op |-> "setDeckEQ", deck |-> d, hand |-> -1]>>]

\* tracker callback: a calibration in progress absorbs the first hand
absorbFirst(hands) ==
  IF Len(hands) > 0 /\ mapper.calibration # NoCalibration
  THEN absorbSample(mapper, hands[1]) ELSE mapper

\* the callback the camera controller passes to tracker.start, for one frame
trackerCallback(hands) ==
  Bind(mapHandsToControls(absorbFirst(hands), getSaved(storage, TRUE), hands), LAMBDA mc :
  Bind([m |-> mc.m, hud |-> hud, ds |-> getOrCreateContext, calls |-> <<>>,
        deckOf |-> mc.deckOf,
        assigned |-> [d \in DeckIds |-> mc.controls[d].assigned]], LAMBDA w0 :
  Bind(hudHandsFrom(w0, hands, 0), LAMBDA w1 :
  Bind(applyControls(w1, mc.controls, "A"), LAMBDA w2 :
    applyControls(w2, mc.controls, "B")))))

\* the hand at index i of a frame shows gesture g on deck d
Shows(hands, g, i, d) ==
  /\ i < Len(hands)
  /\ ~hands[i + 1].empty
  /\ hudDeck(hands[i + 1]) = d
  /\ IF g = "openPalm" THEN isOpenPalm(hands[i + 1]) ELSE isFist(hands[i + 1])

\* the caller's record of a session after one more sample
Absorbed(cal, hand) ==
  [cal EXCEPT !.count = @ + 1,
              !.absorbed = [f \in Fingers |->
                 IF hand.empty \/ hand.tips[f] = NoTip THEN @[f]
                 ELSE @[f] \cup {hand.tips[f]}]]

\* the tracker delivers a frame with these hands to the camera controller
Frame(hands) ==
  /\ hud.running
  /\ \E w \in {trackerCallback(hands)} :
        /\ mapper' = w.m
        /\ decks' = IF w.calls = <<>> THEN decks ELSE w.ds
        /\ audioCtx' = (audioCtx \/ w.calls # <<>>)
        /\ hud' = [w.hud EXCEPT
             !.calls = w.calls,
             !.at = wall,
             !.since = [id \in HoldIds |->
                IF \E g \in Gestures, i \in HandIndexes, d \in DeckIds :
                     id = HoldId(g, i, d) /\ Shows(hands, g, i, d)
                THEN (IF hud.since[id] = 0 THEN wall ELSE hud.since[id])
                ELSE 0],
             !.seen = [i \in HandIndexes |->
                [x |-> IF w.deckOf[i] = NoDeck THEN 0 ELSE hands[i + 1].x,
                 deck |-> w.deckOf[i]]],
             !.crossed = [i \in HandIndexes |->
                IF w.deckOf[i] = NoDeck THEN hud.crossed[i]
                ELSE IF hands[i + 1].x <= leftThresh THEN "A"
                ELSE IF hands[i + 1].x >= rightThresh THEN "B"
                ELSE hud.crossed[i]],
             !.assigned = w.assigned,
             !.cal = IF hud.cal.session /\ Len(hands) > 0
                     THEN Absorbed(hud.cal, hands[1]) ELSE hud.cal]
  /\ UNCHANGED <<now, decoding, xfade, scn, wall, storage>>

\* the fallback calibration ensureCalibration saves
FallbackCalibration ==
  [sampleCount |-> 1, ranges |-> [f \in Fingers |-> [min |-> 300, max |-> 800]],
   timestamp |-> wall]

\* GestureMapper.ensureCalibration: the store after the call
ensureCalibration(st, ok) ==
  IF getSaved(st, ok) # NoCalibration THEN [threw |-> FALSE, raw |-> st, st |-> st]
  ELSE tryCatch(setItem(st, JSONstringify(FallbackCalibration), ok))

\* startCamera: a new mapper is constructed, the calibration ensured, and the
\* tracker started with the callback
StartCamera ==
  /\ ~hud.running
  /\ mapper' = ConstructMapper(storage, TRUE)
  /\ storage' = ensureCalibration(storage, TRUE).st
  /\ hud' = [hud EXCEPT !.running = TRUE,
                         !.cal = NoSession,
                         !.crossed = [i \in HandIndexes |-> NoDeck],
                         !.seen = [i \in HandIndexes |-> [x |-> 0, deck |-> NoDeck]],
                         !.since = [id \in HoldIds |-> 0]]
  /\ UNCHANGED <<now, audioCtx, decks, decoding, xfade, scn, wall>>

\* stopCamera: the tracker is stopped
StopCamera ==
  /\ hud.running
  /\ hud' = [hud EXCEPT !.running = FALSE]
  /\ UNCHANGED <<now, audioCtx, decks, decoding, xfade, scn, wall, mapper, storage>>

\* a caller calls checkHold and keeps the result
CheckHoldCall(id, condition, ms) ==
  /\ mapper' = checkHold(mapper, id, condition, ms).m
  /\ hud' = [hud EXCEPT !.ret = [id |-> id, cond |-> condition, ms |-> ms,
                                 result |-> checkHold(mapper, id, condition, ms).result]]
  /\ UNCHANGED <<now, audioCtx, decks, decoding, xfade, scn, wall, storage>>

\* a caller calls resetHolds
ResetHoldsCall ==
  /\ mapper' = resetHolds(mapper)
  /\ UNCHANGED <<now, audioCtx, decks, decoding, xfade, scn, wall, hud, storage>>

\* a caller constructs a new mapper
ConstructCall(ok) ==
  /\ mapper' = ConstructMapper(storage, ok)
  /\ hud' = [hud EXCEPT !.cal = [NoSession EXCEPT
                !.op = "construct", !.ok = ok,
                !.threw = tryCatch(getItem(storage, ok)).threw]]
  /\ UNCHANGED <<now, audioCtx, decks, decoding, xfade, scn, wall, storage>>

\* a caller calls startCalibration
StartCalibrationCall ==
  /\ mapper' = startCalibration(mapper)
  /\ hud' = [hud EXCEPT !.cal = [NoSession EXCEPT
                !.op = "startCalibration", !.session = TRUE]]
  /\ UNCHANGED <<now, audioCtx, decks, decoding, xfade, scn, wall, storage>>

\* a caller calls absorbSample with the landmarks of one hand
AbsorbSampleCall(hand) ==
  /\ getCalibration(mapper) # NoCalibration => mapper.calibration.sampleCount < MaxSamples
  /\ mapper' = absorbSample(mapper, hand)
  /\ hud' = [hud EXCEPT !.cal =
                [(IF hud.cal.session THEN Absorbed(hud.cal, hand) ELSE hud.cal) EXCEPT
                   !.op = "absorbSample", !.ok = TRUE,
                   !.out = NoCalibration, !.threw = FALSE]]
  /\ UNCHANGED <<now, audioCtx, decks, decoding, xfade, scn, wall, storage>>

\* a caller calls finishCalibration and keeps what it returns
FinishCalibrationCall(ok) ==
  /\ \E r \in {finishCalibration(mapper, storage, ok)} :
        /\ mapper' = r.m
        /\ storage' = r.st
        /\ hud' = [hud EXCEPT !.cal = [NoSession EXCEPT
                      !.op = "finishCalibration", !.ok = ok,
                      !.out = r.out, !.threw = r.threw]]
  /\ UNCHANGED <<now, audioCtx, decks, decoding, xfade, scn, wall>>

\* a caller calls ensureCalibration
EnsureCalibrationCall(ok) ==
  /\ \E r \in {ensureCalibration(storage, ok)} :
        /\ storage' = r.st
        /\ hud' = [hud EXCEPT !.cal = [@ EXCEPT
                      !.op = "ensureCalibration", !.ok = ok,
                      !.out = NoCalibration, !.threw = r.threw]]
  /\ UNCHANGED <<now, audioCtx, decks, decoding, xfade, scn, wall, mapper>>

\* a caller calls mapFingerY and keeps what it returns
MapFingerYCall(finger, y) ==
  /\ hud.map.calls < MaxMapCalls
  /\ \E r \in {mapFingerY(mapper, getSaved(storage, TRUE), finger, y)} :
        /\ mapper' = r.m
        /\ hud' = [hud EXCEPT !.map =
                      [returned |-> [hud.map.returned EXCEPT ![finger] = r.value],
                       finger |-> finger, y |-> y,
                       prev |-> hud.map.returned[finger],
                       result |-> r.value,
                       calls |-> hud.map.calls + 1]]
  /\ UNCHANGED <<now, audioCtx, decks, decoding, xfade, scn, wall, storage>>

\* a caller calls mapHandsToControls and keeps what it returns
MapHandsCall(hands) ==
  /\ hud.mapped.calls < MaxMapCalls
  /\ \E r \in {mapHandsToControls(mapper, getSaved(storage, TRUE), hands)} :
        /\ mapper' = r.m
        /\ hud' = [hud EXCEPT !.mapped =
                      [hands |-> hands, controls |-> r.controls, deckOf |-> r.deckOf,
                       before |-> mapper.lastSmoothed,
                       calls |-> hud.mapped.calls + 1]]
  /\ UNCHANGED <<now, audioCtx, decks, decoding, xfade, scn, wall, storage>>

\* mapHandsToControls is called on the mapper with hands and on its twin with
\* other
MapTwinCall(hands, other) ==
  /\ hud.mapped.calls < MaxMapCalls
  /\ \E r \in {mapHandsToControls(mapper, getSaved(storage, TRUE), hands)},
        t \in {mapHandsToControls(hud.twin.m, getSaved(storage, TRUE), other)} :
        /\ mapper' = r.m
        /\ hud' = [hud EXCEPT
                      !.mapped = [hands |-> hands, controls |-> r.controls,
                                  deckOf |-> r.deckOf,
                                  before |-> mapper.lastSmoothed,
                                  calls |-> hud.mapped.calls + 1],
                      !.twin = [m |-> t.m, controls |-> t.controls]]
  /\ UNCHANGED <<now, audioCtx, decks, decoding, xfade, scn, wall, storage>>

\* the engine and the mapper, which the tracker does not touch
TrackerFrame == <<now, audioCtx, decks, decoding, xfade, scn, wall, mapper, storage>>

\* HandTracker.start is called: it returns at once on a running tracker, and
\* otherwise waits for the import of the detector
TrackerStartCalled ==
  /\ ~hud.tracker.running
  /\ hud.tracker.starting < MaxLoops
  /\ hud' = [hud EXCEPT !.tracker.starting = @ + 1, !.tracker.stopped = FALSE]
  /\ UNCHANGED TrackerFrame

\* HandTracker.start after the import: this.hands is a new detector, running
\* is set and process() is called for a new loop
TrackerImported(l) ==
  /\ hud.tracker.starting > 0
  /\ hud.tracker.loops[l] = NoLoop
  /\ \A k \in LoopIds : k < l => hud.tracker.loops[k] # NoLoop
  /\ hud' = [hud EXCEPT !.tracker =
                process([hud.tracker EXCEPT !.starting = @ - 1,
                                            !.running = TRUE,
                                            !.last = NoSubmit,
                                            !.prev = NoSubmit], l)]
  /\ UNCHANGED TrackerFrame

\* the animation frame loop l asked for arrives
TrackerRaf(l) ==
  /\ hud.tracker.loops[l].pc = "raf"
  /\ hud' = [hud EXCEPT !.tracker = process(hud.tracker, l)]
  /\ UNCHANGED TrackerFrame

\* hands.send of loop l settles
TrackerSent(l, outcome) ==
  /\ hud.tracker.loops[l].pc = "sending"
  /\ hud' = [hud EXCEPT !.tracker = sent(hud.tracker, l, outcome)]
  /\ UNCHANGED TrackerFrame

\* HandTracker.stop is called
TrackerStop ==
  /\ hud' = [hud EXCEPT !.tracker = stop(hud.tracker)]
  /\ UNCHANGED TrackerFrame

\* the video gets or loses its current frame
VideoReadyChanges ==
  /\ hud' = [hud EXCEPT !.tracker.ready = ~@]
  /\ UNCHANGED TrackerFrame

\* performance.now() advances
PerfAdvance(n) ==
  /\ hud.tracker.perf + n <= MaxRafs * RafStep
  /\ hud' = [hud EXCEPT !.tracker.perf = @ + n]
  /\ UNCHANGED TrackerFrame

\* wall-clock time passes between two calls
WallAdvance ==
  /\ wall < WallStart + MaxFrames * WallStep
  /\ wall' = wall + WallStep
  /\ UNCHANGED <<now, audioCtx, decks, decoding, xfade, scn, mapper, hud, storage>>

----------------------------------------------------------------------------
\* Inputs

SeekTimes == {-1, BaseDur + 3}

JogDeltas == {2}

VolumeInputs == {Unit \div 2}

\* the files of the transport specification all decode
TransportFiles == Files \ {0}

EQInputs == {[low |-> 100, mid |-> -999, high |-> 5]}

FXInputs == {[wet |-> Unit]}

LoopLengths == {2}

CrossfadeInputs == -1 .. XSteps + 1

MixCrossfadeInputs == {-1, XSteps \div 2}

CrossfadeVolumeInputs == {0, Unit \div 2, Unit + Unit \div 2}

\* the deck the transport specification drives
TransportDecks == {"A"}

NoScenario == [pc |-> "off", p |-> 0, d1 |-> 0, d2 |-> 0, left |-> 0]

\* the vision side before the camera starts
VisionInit ==
  /\ wall = WallStart
  /\ storage = NoItem
  /\ mapper = ConstructMapper(storage, TRUE)
  /\ hud = NewHud

Init ==
  /\ now = 0
  /\ audioCtx = FALSE
  /\ decks = [d \in DeckIds |-> NewDeck]
  /\ decoding = <<>>
  /\ xfade = -1
  /\ scn = NoScenario
  /\ VisionInit

\* Transport of one deck against the audio clock
Next ==
  \/ \E d \in TransportDecks, f \in TransportFiles : LoadDeckFromFile(d, f)
  \/ \E i \in 1 .. MaxPending : DecodeResolved(i)
  \/ \E d \in TransportDecks : PlayDeck(d)
  \/ \E d \in TransportDecks : PauseDeck(d)
  \/ \E d \in TransportDecks, t \in SeekTimes : SeekDeck(d, t)
  \/ \E d \in TransportDecks, delta \in JogDeltas : JogDeck(d, delta)
  \/ \E d \in TransportDecks, v \in VolumeInputs : SetDeckVolume(d, v)
  \/ \E d \in TransportDecks, on \in BOOLEAN, len \in LoopLengths : SetDeckLoop(d, on, len)
  \/ \E d \in TransportDecks : RestartTimerFires(d)
  \/ Tick

Spec == Init /\ [][Next]_vars

\* The two decks and the mixer controls, the clock standing still
NextMix ==
  \/ \E d \in DeckIds, f \in Files : LoadDeckFromFile(d, f)
  \/ \E i \in 1 .. MaxPending : DecodeResolved(i)
  \/ \E i \in 1 .. MaxPending : DecodeRejected(i)
  \/ \E d \in DeckIds : PlayDeck(d)
  \/ \E d \in DeckIds : PauseDeck(d)
  \/ \E d \in DeckIds, v \in VolumeInputs : SetDeckVolume(d, v)
  \/ \E d \in TransportDecks, e \in EQInputs : SetDeckEQ(d, e)
  \/ \E d \in TransportDecks, s \in FXInputs : SetDeckFX(d, s)
  \/ \E x \in MixCrossfadeInputs : SetCrossfade(x)

SpecMix == Init /\ [][NextMix]_vars

\* The crossfader over its whole grid, against the deck volumes
NextCrossfade ==
  \/ \E d \in DeckIds, v \in CrossfadeVolumeInputs : SetDeckVolume(d, v)
  \/ \E x \in CrossfadeInputs : SetCrossfade(x)

SpecCrossfade == Init /\ [][NextCrossfade]_vars

----------------------------------------------------------------------------
\* One deck's volume, EQ and FX controls with out-of-range inputs, against its
\* transport

ToneVolumeInputs == {-Unit, Unit \div 2, 2 * Unit}

ToneEQInputs ==
  {[low |-> 100, mid |-> -999, high |-> 5],
   [low |-> -13, mid |-> 12, high |-> 13],
   [low |-> -12, mid |-> 0, high |-> 1000]}

ToneFXInputs ==
  {[wet |-> Unit], [wet |-> -Unit], [wet |-> 3 * Unit],
   [delayTime |-> 9000, delayFeedback |-> 900],
   [delayTime |-> -5, lowpassCutoff |-> 10],
   [lowpassCutoff |-> 30000, delayFeedback |-> -1]}

\* the file the tone specification loads
ToneFile == 1

NextTone ==
  \/ \E d \in TransportDecks : LoadDeckFromFile(d, ToneFile)
  \/ \E i \in 1 .. MaxPending : DecodeResolved(i)
  \/ \E d \in TransportDecks : PlayDeck(d)
  \/ \E d \in TransportDecks : PauseDeck(d)
  \/ \E d \in TransportDecks, v \in ToneVolumeInputs : SetDeckVolume(d, v)
  \/ \E d \in TransportDecks, e \in ToneEQInputs : SetDeckEQ(d, e)
  \/ \E d \in TransportDecks, s \in ToneFXInputs : SetDeckFX(d, s)
  \/ Tick

SpecTone == Init /\ [][NextTone]_vars

----------------------------------------------------------------------------
\* One deck looped: setLoop with arbitrary lengths against play, pause and the
\* clock

\* the file the loop and jog specifications load
ScrubFile == 2

\* loop lengths: negative, omitted or 0, and two real lengths
LoopLengthInputs == {-1, 0, 1, 2}

NextLoop ==
  \/ \E d \in TransportDecks : LoadDeckFromFile(d, ScrubFile)
  \/ \E i \in 1 .. MaxPending : DecodeResolved(i)
  \/ \E d \in TransportDecks : PlayDeck(d)
  \/ \E d \in TransportDecks : PauseDeck(d)
  \/ \E d \in TransportDecks, on \in BOOLEAN, len \in LoopLengthInputs :
       SetDeckLoop(d, on, len)
  \/ Tick

SpecLoop == Init /\ [][NextLoop]_vars

----------------------------------------------------------------------------
\* One deck jogged: jog with small and oversized deltas, the clock running on
\* by a tick or by more than a jog step

\* jog deltas: a tick either way, and more than maxStep either way
JogDeltaInputs == {-(maxStep + 1), -1, 1, maxStep + 1}

\* a wait longer than the longest track plus a jog step
JogLongWait == MaxDur + maxStep + 1

\* waits between calls: a tick, or the long wait
JogWaits == {1, JogLongWait}

\* the clock of the jog specification stops here
JogHorizon == JogLongWait + MaxTime

\* a wait of the jog specification: single ticks run up to MaxTime after the
\* start and after the long wait
JogWait(n) ==
  /\ now + n <= JogHorizon
  /\ n = 1 => now % JogLongWait < MaxTime
  /\ Elapse(n)

NextJog ==
  \/ \E d \in TransportDecks : LoadDeckFromFile(d, ScrubFile)
  \/ \E i \in 1 .. MaxPending : DecodeResolved(i)
  \/ \E d \in TransportDecks : PlayDeck(d)
  \/ \E d \in TransportDecks : PauseDeck(d)
  \/ \E d \in TransportDecks, delta \in JogDeltaInputs : JogDeck(d, delta)
  \/ \E d \in TransportDecks : RestartTimerFires(d)
  \/ \E n \in JogWaits : JogWait(n)

SpecJog == Init /\ [][NextJog]_vars

----------------------------------------------------------------------------
\* checkHold probed with two ids against the wall clock

\* hold times the probe passes: the default and a shorter one
ProbeHoldTimes == {HoldMs, WallStep}

NextProbe ==
  \/ \E id \in ProbeIds, c \in BOOLEAN, ms \in ProbeHoldTimes : CheckHoldCall(id, c, ms)
  \/ ResetHoldsCall
  \/ WallAdvance

SpecProbe == Init /\ [][NextProbe]_vars

----------------------------------------------------------------------------
\* The camera controller with one hand that comes and goes, on either side,
\* open, closed or neither, against the wall clock

\* every finger tip at the same height
LevelTips == [f \in Fingers |-> 500]

\* a hand with its centroid at x and its fingers spread by s
Hand(x, s) == [empty |-> FALSE, x |-> x, spread |-> s, angle |-> 0, tips |-> LevelTips]

HoldFrames == {<<>>} \cup {<<Hand(x, s)>> : x \in {40, 60}, s \in {10, 20, 30}}

NextHold ==
  \/ StartCamera
  \/ \E hands \in HoldFrames : Frame(hands)
  \/ WallAdvance

SpecHold == Init /\ [][NextHold]_vars

----------------------------------------------------------------------------
\* The mapper's deck assignment for up to two hands whose centroids move over
\* both thresholds and the zone between them

AssignXs == {40, 45, 49, 51, 55, 60}

\* neither open nor closed
NeutralSpread == 20

\* a hand with its centroid at x and its palm turned by 0.1 rad
Turned(x) == [Hand(x, NeutralSpread) EXCEPT !.angle = 100]

AssignFrames ==
  {<<>>} \cup {<<Hand(x, NeutralSpread)>> : x \in AssignXs}
         \cup {<<Turned(x)>> : x \in AssignXs}
         \cup {<<Hand(x, NeutralSpread), Hand(y, NeutralSpread)>> : x \in AssignXs, y \in AssignXs}

NextAssign ==
  \/ StartCamera
  \/ \E hands \in AssignFrames : Frame(hands)

SpecAssign == Init /\ [][NextAssign]_vars

----------------------------------------------------------------------------
\* The calibration calls of one page: mappers are constructed, sessions are
\* started, fed and finished, the fallback is ensured, and the store works
\* or fails during any one call

\* a hand whose finger tips the detector reports only for thumb and index
TwoTips(y) ==
  [Hand(50, NeutralSpread) EXCEPT
     !.tips = [f \in Fingers |-> IF f \in {"thumb", "index"} THEN y ELSE NoTip]]

\* a hand with every tracked tip at height y
AllTips(y) == [Hand(50, NeutralSpread) EXCEPT !.tips = [f \in Fingers |-> y]]

CalibrationHands == {AllTips(200), TwoTips(700)}

NextCalibration ==
  \/ \E ok \in BOOLEAN : ConstructCall(ok)
  \/ StartCalibrationCall
  \/ \E hand \in CalibrationHands : AbsorbSampleCall(hand)
  \/ \E ok \in BOOLEAN : FinishCalibrationCall(ok)
  \/ \E ok \in BOOLEAN : EnsureCalibrationCall(ok)

SpecCalibration == Init /\ [][NextCalibration]_vars

----------------------------------------------------------------------------
\* mapFingerY called for two fingers at heights above, inside and below the
\* saved ranges, on a page that opens with nothing saved, with the fallback
\* saved, or with a calibration of one sample or of two tips saved

\* the record a session leaves that absorbed the hands in samples
Recorded(samples) ==
  [sampleCount |-> Len(samples),
   ranges |-> [f \in Fingers |->
      LET ys == {samples[k].tips[f] : k \in 1 .. Len(samples)} \ {NoTip}
      IN IF ys = {} THEN NoRange
         ELSE [min |-> CHOOSE a \in ys : \A b \in ys : a <= b,
               max |-> CHOOSE a \in ys : \A b \in ys : a >= b]],
   timestamp |-> WallStart]

SavedInputs ==
  {NoItem,
   JSONstringify([FallbackCalibration EXCEPT !.timestamp = WallStart]),
   JSONstringify(Recorded(<<AllTips(500)>>)),
   JSONstringify(Recorded(<<TwoTips(200), TwoTips(700)>>))}

MapFingers == {"index", "ring"}

MapYs == {-100, 200, 450, 700, 1100}

InitMap ==
  /\ now = 0
  /\ audioCtx = FALSE
  /\ decks = [d \in DeckIds |-> NewDeck]
  /\ decoding = <<>>
  /\ xfade = -1
  /\ scn = NoScenario
  /\ wall = WallStart
  /\ storage \in SavedInputs
  /\ mapper = ConstructMapper(storage, TRUE)
  /\ hud = NewHud

NextMap == \E finger \in MapFingers, y \in MapYs : MapFingerYCall(finger, y)

SpecMap == InitMap /\ [][NextMap]_vars

----------------------------------------------------------------------------
\* One deck sought and jogged while it plays: seeks and jogs inside and outside
\* the fade window, against pause, the swap timer and the clock

\* seek targets: before the start, inside the track, past the end
SeekTargets == {-1, 1, BaseDur + ScrubFile + 1}

\* jog deltas: a tick either way
SeekJogs == {-1, 1}

\* the clock of the seek specification stops here: two fade windows after MaxTime
SeekHorizon == MaxTime + 2 * FadeTicks

SeekTick ==
  /\ now < SeekHorizon
  /\ AdvanceClock
  /\ UNCHANGED <<audioCtx, decoding, xfade, scn, wall, mapper, hud, storage>>

NextSeek ==
  \/ \E d \in TransportDecks : LoadDeckFromFile(d, ScrubFile)
  \/ \E i \in 1 .. MaxPending : DecodeResolved(i)
  \/ \E d \in TransportDecks : PlayDeck(d)
  \/ \E d \in TransportDecks : PauseDeck(d)
  \/ \E d \in TransportDecks, t \in SeekTargets : SeekDeck(d, t)
  \/ \E d \in TransportDecks, delta \in SeekJogs : JogDeck(d, delta)
  \/ \E d \in TransportDecks : RestartTimerFires(d)
  \/ SeekTick

SpecSeek == Init /\ [][NextSeek]_vars

----------------------------------------------------------------------------
\* One playing deck sought once or more, with the other controls called inside
\* and outside the fade window; nothing pauses or reloads the deck, no volume
\* is 0 and the crossfader stays in the middle

\* the crossfader in the middle
FadeCrossfadeInputs == {XSteps \div 2}

NextFade ==
  \/ \E d \in TransportDecks : LoadDeckFromFile(d, ScrubFile)
  \/ \E i \in 1 .. MaxPending : DecodeResolved(i)
  \/ \E d \in TransportDecks : PlayDeck(d)
  \/ \E d \in TransportDecks : SeekDeck(d, 1)
  \/ \E d \in TransportDecks, v \in VolumeInputs : SetDeckVolume(d, v)
  \/ \E d \in TransportDecks, e \in EQInputs : SetDeckEQ(d, e)
  \/ \E d \in TransportDecks, fx \in FXInputs : SetDeckFX(d, fx)
  \/ \E d \in TransportDecks, on \in BOOLEAN, len \in LoopLengths : SetDeckLoop(d, on, len)
  \/ \E x \in FadeCrossfadeInputs : SetCrossfade(x)
  \/ \E d \in TransportDecks : RestartTimerFires(d)
  \/ Tick

SpecFade == Init /\ [][NextFade]_vars

----------------------------------------------------------------------------
\* Loads that overlap: up to MaxOverlap loadDeckFromFile calls wait for their
\* decode at once, for either deck, and the decodes finish in any order

NextOverlap ==
  \/ \E d \in DeckIds, f \in TransportFiles : StartLoad(d, f)
  \/ \E i \in 1 .. MaxOverlap : DecodeResolved(i)
  \/ \E d \in DeckIds : PlayDeck(d)

SpecOverlap == Init /\ [][NextOverlap]_vars

----------------------------------------------------------------------------
\* mapHandsToControls called with hands of which the detector reports all, some
\* or none of the landmarks, on a page that opens as for mapFingerY

\* a hand without landmarks
NoLandmarks ==
  [empty |-> TRUE, x |-> 0, spread |-> 0, angle |-> 0, tips |-> [f \in Fingers |-> NoTip]]

\* a hand on the left whose landmarks end before the tip of finger f
Lacks(f, y) ==
  [Hand(40, NeutralSpread) EXCEPT !.tips = [g \in Fingers |-> IF g = f THEN NoTip ELSE y]]

LandmarkFrames ==
  {<<NoLandmarks>>, <<AllTips(200)>>, <<TwoTips(700)>>,
   <<Lacks("index", 450)>>, <<Lacks("thumb", 700)>>,
   <<NoLandmarks, Lacks("index", 200)>>}

NextLandmarks == \E hands \in LandmarkFrames : MapHandsCall(hands)

SpecLandmarks == InitMap /\ [][NextLandmarks]_vars

----------------------------------------------------------------------------
\* Two mappers that see the same hand on deck A and hands on deck B that may
\* differ, frame by frame

\* a hand on the left, over the left threshold, with every tip at height y
OnA(y) == [AllTips(y) EXCEPT !.x = 40]

\* a hand on the right, over the right threshold, with every tip at height y
OnB(y) == [AllTips(y) EXCEPT !.x = 60]

TwinYs == {200, 700}

NextTwin ==
  \E y \in TwinYs, yB \in TwinYs, otherB \in TwinYs :
    MapTwinCall(<<OnA(y), OnB(yB)>>, <<OnA(y), OnB(otherB)>>)

SpecTwin == InitMap /\ [][NextTwin]_vars

----------------------------------------------------------------------------
\* One hand tracker, started once, with its frame loop, the detector's answers
\* and the video's readiness against performance.now()

InitTracker == Init

\* start() is called on the tracker, which was never started
TrackerStartOnce ==
  /\ hud.tracker.starting = 0
  /\ \A l \in LoopIds : hud.tracker.loops[l] = NoLoop
  /\ hud.tracker.last = NoSubmit /\ hud.tracker.lastProcessTime = 0
  /\ TrackerStartCalled

NextTracker ==
  \/ TrackerStartOnce
  \/ \E l \in LoopIds : TrackerImported(l)
  \/ \E l \in LoopIds : TrackerRaf(l)
  \/ \E l \in LoopIds, outcome \in SendOutcomes : TrackerSent(l, outcome)
  \/ VideoReadyChanges
  \/ \E n \in PerfSteps : PerfAdvance(n)

SpecTracker == InitTracker /\ [][NextTracker]_vars

----------------------------------------------------------------------------
\* One hand tracker that is started, stopped and started again at any time

NextRestart ==
  \/ TrackerStartCalled
  \/ \E l \in LoopIds : TrackerImported(l)
  \/ \E l \in LoopIds : TrackerRaf(l)
  \/ \E l \in LoopIds : TrackerSent(l, "results")
  \/ TrackerStop
  \/ VideoReadyChanges
  \/ \E n \in PerfSteps : PerfAdvance(n)

SpecRestart == Init /\ [][NextRestart]_vars

----------------------------------------------------------------------------
\* The resume scenario: on deck A, loaded and stopped at stored position p,
\* play(), d1 ticks of the audio clock, pause(), play(), d2 ticks, pause()

\* deck A holds buffer f and was moved to p while stopped
InitResume ==
  /\ now = 0
  /\ audioCtx = TRUE
  /\ decoding = <<>>
  /\ xfade = -1
  /\ VisionInit
  /\ \E f \in TransportFiles, p \in 0 .. MaxDur, d1 \in 1 .. MaxAdvance,
        d2 \in 1 .. MaxAdvance :
       /\ p < BufferDuration(f)
       /\ decks = [d \in DeckIds |->
                     IF d = "A" THEN seek(loadBuffer(NewDeck, f), p) ELSE NewDeck]
       /\ scn = [pc |-> "play1", p |-> p, d1 |-> d1, d2 |-> d2, left |-> 0]

\* the script calls play() on deck A
ResumePlay ==
  /\ scn.pc \in {"play1", "play2"}
  /\ decks' = [decks EXCEPT !["A"] = play(@)]
  /\ scn' = [scn EXCEPT !.pc = IF scn.pc = "play1" THEN "advance1" ELSE "advance2",
                         !.left = IF scn.pc = "play1" THEN scn.d1 ELSE scn.d2]
  /\ UNCHANGED <<now, audioCtx, decoding, xfade, wall, mapper, hud, storage>>

\* the script lets one tick of audio-clock time pass
ResumeAdvance ==
  /\ scn.pc \in {"advance1", "advance2"}
  /\ scn.left > 0
  /\ AdvanceClock
  /\ scn' = [scn EXCEPT !.left = scn.left - 1]
  /\ UNCHANGED <<audioCtx, decoding, xfade, wall, mapper, hud, storage>>

\* the script calls pause() on deck A
ResumePause ==
  /\ scn.pc \in {"advance1", "advance2"}
  /\ scn.left = 0
  /\ decks' = [decks EXCEPT !["A"] = pause(@)]
  /\ scn' = [scn EXCEPT !.pc = IF scn.pc = "advance1" THEN "play2" ELSE "done"]
  /\ UNCHANGED <<now, audioCtx, decoding, xfade, wall, mapper, hud, storage>>

NextResume == ResumePlay \/ ResumeAdvance \/ ResumePause

SpecResume == InitResume /\ [][NextResume]_vars

----------------------------------------------------------------------------
\* Properties

\* the deck's effective position while it plays: context clock minus start time
LivePos(d) == now - decks[d].startTime

Loaded(d) == decks[d].buffer # 0

\* a load of deck d completes in this step
LoadCompletes(d) ==
  \E i \in 1 .. Len(decoding) : decoding[i].deck = d /\ DecodeResolved(i)

\* C1: a deck's isPlaying changes only in a step of play(), pause() or load();
\* seek, jog, setVolume, setEQ, setFX, setLoop and the fade timer leave a PLAYING
\* deck PLAYING and a STOPPED deck STOPPED.
C1_TransportOnlyByPlayPauseLoad ==
  [][\A d \in DeckIds :
       decks'[d].isPlaying # decks[d].isPlaying
         => PlayDeck(d) \/ PauseDeck(d) \/ LoadCompletes(d)]_vars

\* C2: at most one started source per deck, and one exists exactly when the deck
\* reports isPlaying.
C2_OneSourceIffPlaying ==
  \A d \in DeckIds :
    /\ decks[d].live <= 1
    /\ (decks[d].live = 1) <=> decks[d].isPlaying

\* C3 as claimed: with stored position p < duration, play, d1 ticks, pause
\* stores p + d1, and play, d2 ticks, pause again stores p + d1 + d2.
C3_ResumeAsClaimed ==
  /\ scn.pc = "play2" => decks["A"].position = scn.p + scn.d1
  /\ scn.pc = "done" => decks["A"].position = scn.p + scn.d1 + scn.d2

\* C3 amended: as C3, the second round provided p + d1 is below the duration
\* too (play() starts at the stored position modulo the duration).
C3_ResumeFromStoredPosition ==
  /\ scn.pc = "play2" => decks["A"].position = scn.p + scn.d1
  /\ (scn.pc = "done" /\ scn.p + scn.d1 < BufferDuration(decks["A"].buffer))
     => decks["A"].position = scn.p + scn.d1 + scn.d2
  /\ (scn.pc \in {"advance1", "advance2"}
      /\ decks["A"].position < BufferDuration(decks["A"].buffer))
     => /\ decks["A"].isPlaying
        /\ decks["A"].source.offset = decks["A"].position

\* C3 witness: the script ended, resumed from a non-zero position below the
\* duration both times
C3_Witness ==
  /\ scn.pc = "done"
  /\ scn.p > 0
  /\ scn.p + scn.d1 < BufferDuration(decks["A"].buffer)
  /\ decks["A"].position = scn.p + scn.d1 + scn.d2
  /\ ~decks["A"].isPlaying

\* the gain ramp a deck has scheduled runs to value v and ends at time t
RampsTo(dk, v, t) ==
  dk.gain.ramp.active /\ dk.gain.ramp.v1 = v /\ dk.gain.ramp.t1 = t

\* C4: seek(t) on a PLAYING deck follows the fade-replace order: the call
\* schedules the ramp to 0 and a swap at clamp(t, 0, duration) and leaves the old
\* source playing; while the swap is pending the source is replaced only by the
\* timer (or removed by pause, load, setLoop); the timer fires no earlier than
\* the end of the fade window, tears the old source down, starts the new one at
\* the scheduled offset with the gain at 0 and schedules the ramp up to the
\* stored volume.
C4_FadeReplaceOrder ==
  [][\A d \in DeckIds :
       /\ \A t \in SeekTimes :
            (Loaded(d) /\ decks[d].isPlaying /\ SeekDeck(d, t))
            => /\ RampsTo(decks'[d], 0, now + FadeTicks)
               /\ decks'[d].gain.value = decks[d].gain.value
               /\ decks'[d].source = decks[d].source
               /\ decks'[d].live = decks[d].live
               /\ decks'[d].isPlaying
               /\ decks'[d].restartTimer =
                    [pending |-> TRUE, due |-> now + TimerTicks,
                     offset |-> clamp(t, 0, BufferDuration(decks[d].buffer))]
       /\ (decks[d].restartTimer.pending /\ decks'[d].source # decks[d].source)
          => \/ RestartTimerFires(d)
             \/ PauseDeck(d) \/ LoadCompletes(d)
             \/ \E on \in BOOLEAN, len \in LoopLengths : SetDeckLoop(d, on, len)
       /\ (RestartTimerFires(d) /\ Loaded(d))
          => /\ now >= decks[d].restartTimer.due
             /\ decks[d].restartTimer.due - TimerTicks + FadeTicks <= now
             /\ decks'[d].source.state = "started"
             /\ decks'[d].source.offset = decks[d].restartTimer.offset
             /\ decks'[d].live = 1
             /\ decks'[d].gain.value = 0
             /\ RampsTo(decks'[d], decks[d].volumeVal, now + FadeTicks)
             /\ decks'[d].isPlaying
             /\ ~decks'[d].restartTimer.pending]_vars

\* C4 witness: a seek past the end of a playing deck has been swapped in at the
\* track's duration and the gain is ramping up from 0
C4_Witness ==
  \E d \in DeckIds :
    /\ decks[d].isPlaying
    /\ decks[d].source.state = "started"
    /\ decks[d].source.offset = BufferDuration(decks[d].buffer)
    /\ decks[d].position = BufferDuration(decks[d].buffer)
    /\ decks[d].startTime = now - BufferDuration(decks[d].buffer)
    /\ RampsTo(decks[d], decks[d].volumeVal, now + FadeTicks)
    /\ decks[d].gain.value = 0

\* C5: from a seek on a PLAYING deck until the ramp up completes, the gain only
\* falls while the swap is pending and only rises, never above the stored
\* volume, while the ramp up runs, whatever other control calls interleave.
C5_FadeGainMonotone ==
  [][\A d \in DeckIds :
       /\ (decks[d].restartTimer.pending /\ decks'[d].restartTimer.pending)
          => decks'[d].gain.value <= decks[d].gain.value
       /\ (/\ ~decks[d].restartTimer.pending /\ ~decks'[d].restartTimer.pending
           /\ decks[d].gain.ramp.active /\ decks[d].gain.ramp.v1 > 0
           /\ decks[d].isPlaying /\ decks'[d].isPlaying)
          => /\ decks'[d].gain.value >= decks[d].gain.value
             /\ decks'[d].gain.value <= decks'[d].volumeVal]_vars

\* C6: a pending fade-replace swap implies a PLAYING deck; pause() and load()
\* cancel a pending swap, create no source and leave the deck STOPPED, so the
\* swap cannot fire afterwards.
C6_PendingSwapCancelled ==
  /\ [](\A d \in DeckIds : decks[d].restartTimer.pending => decks[d].isPlaying)
  /\ [][\A d \in DeckIds :
         (decks[d].restartTimer.pending /\ (PauseDeck(d) \/ LoadCompletes(d)))
         => /\ ~decks'[d].restartTimer.pending
            /\ decks'[d].source = NoSource
            /\ decks'[d].live = 0
            /\ ~decks'[d].isPlaying]_vars

\* C6 witness: a deck paused inside the fade window: stopped, no source, no
\* pending swap, the ramp to 0 still scheduled
C6_Witness ==
  \E d \in DeckIds :
    /\ Loaded(d)
    /\ ~decks[d].isPlaying
    /\ decks[d].source = NoSource
    /\ ~decks[d].restartTimer.pending
    /\ decks[d].position > 0
    /\ RampsTo(decks[d], 0, now + 1)

\* C7: load(buffer) from any deck state leaves the deck STOPPED with the new
\* buffer, stored position 0, no source and no pending swap; volume, EQ, FX and
\* the loop settings are unchanged.
C7_LoadResetsTransport ==
  [][\A i \in 1 .. Len(decoding) :
       DecodeResolved(i)
       => LET d == decoding[i].deck
          IN /\ ~decks'[d].isPlaying
             /\ decks'[d].buffer = decoding[i].file
             /\ decks'[d].position = 0
             /\ decks'[d].source = NoSource
             /\ decks'[d].live = 0
             /\ ~decks'[d].restartTimer.pending
             /\ decks'[d].volumeVal = decks[d].volumeVal
             /\ decks'[d].eq = decks[d].eq
             /\ decks'[d].fx = decks[d].fx
             /\ decks'[d].loopEnabled = decks[d].loopEnabled
             /\ decks'[d].loopStart = decks[d].loopStart
             /\ decks'[d].loopEnd = decks[d].loopEnd]_vars

\* C7 witness: a load is about to complete on a PLAYING deck that holds another
\* buffer and has a fade-replace in flight
C7_Witness ==
  \E i \in 1 .. Len(decoding) :
    LET d == decoding[i].deck
    IN /\ decks[d].isPlaying
       /\ decks[d].restartTimer.pending
       /\ decks[d].buffer # 0
       /\ decks[d].buffer # decoding[i].file
       /\ decoding[i].file # 0

\* C8: load is all-or-nothing: neither the call of loadDeckFromFile nor the
\* failure of its decode changes any field of either deck.
C8_FailedLoadChangesNothing ==
  [][/\ \A d \in DeckIds, f \in Files : LoadDeckFromFile(d, f) => decks' = decks
     /\ \A i \in 1 .. Len(decoding) : DecodeRejected(i) => decks' = decks]_vars

\* C8 witness: loadDeckFromFile was called with a file that does not decode, on
\* a loaded PLAYING deck whose volume was changed, the other deck loaded too
C8_Witness ==
  \E i \in 1 .. Len(decoding) :
    LET d == decoding[i].deck
    IN /\ decoding[i].file = 0
       /\ decks[d].isPlaying
       /\ decks[d].volumeVal # Unit
       /\ \A e \in DeckIds : Loaded(e)

\* the crossfade coefficient last applied to deck d (1.0 before any)
CrossfadeCoefficient(d) ==
  IF xfade = -1 THEN Unit
  ELSE IF d = "A" THEN crossfadeGains(xfade)[1] ELSE crossfadeGains(xfade)[2]

\* C9: with no fade in flight, each deck's output gain is its stored volume
\* times its crossfade coefficient.
C9_GainIsVolumeTimesCrossfade ==
  \A d \in DeckIds :
    (~decks[d].gain.ramp.active /\ ~decks[d].restartTimer.pending)
    => decks[d].gain.value = (decks[d].volumeVal * CrossfadeCoefficient(d)) \div Unit

\* rounding allowance for the sum of two squared fixed-point gains
EqualPowerTol == 2 * Unit

Abs(n) == IF n < 0 THEN -n ELSE n

\* C10: setCrossfade(x) clamps x to [0,1] and applies leftGain = cos(x pi/2),
\* rightGain = cos((1-x) pi/2): the squares sum to 1 (to the rounding of the
\* fixed-point gains), with (1, 0) at x <= 0 and (0, 1) at x >= 1.
C10_EqualPowerCrossfade ==
  [][\A x \in CrossfadeInputs :
       (SetCrossfade(x) /\ audioCtx)
       => LET l == decks'["A"].gain.value
              r == decks'["B"].gain.value
          IN /\ Abs(l * l + r * r - Unit * Unit) <= EqualPowerTol
             /\ l = cosQuarter(clamp(x, 0, XSteps))
             /\ r = cosQuarter(XSteps - clamp(x, 0, XSteps))
             /\ x <= 0 => l = Unit /\ r = 0
             /\ x >= XSteps => l = 0 /\ r = Unit
             /\ (0 < x /\ x < XSteps) => (0 < l /\ l < Unit /\ 0 < r /\ r < Unit)]_vars

\* C10 witness: the crossfader was set to the centre: both decks at cos(pi/4)
C10_Witness ==
  /\ xfade = XSteps \div 2
  /\ decks["A"].gain.value = decks["B"].gain.value
  /\ decks["A"].gain.value > 0
  /\ decks["A"].gain.value < Unit

\* the fields of a deck that make up its transport state and position
Transport(dk) ==
  <<dk.isPlaying, dk.position, dk.startTime, dk.source, dk.live, dk.restartTimer,
    dk.buffer>>

\* C11: out-of-range volume and EQ inputs are clamped, never rejected:
\* setVolume(v) stores 0 for v < 0, 1 for v > 1 and v otherwise; setEQ stores
\* each band cut to [-12, 12], so {100, -999, 5} stores {12, -12, 5}; neither
\* call changes the transport state or the position.
C11_VolumeAndEQClamped ==
  [][\A d \in DeckIds :
       /\ \A v \in ToneVolumeInputs :
            SetDeckVolume(d, v)
            => /\ decks'[d].volumeVal = (IF v < 0 THEN 0 ELSE IF v > Unit THEN Unit ELSE v)
               /\ Transport(decks'[d]) = Transport(decks[d])
       /\ \A e \in ToneEQInputs :
            SetDeckEQ(d, e)
            => /\ \A b \in {"low", "mid", "high"} :
                    decks'[d].eq[b] =
                      (IF e[b] < -12 THEN -12 ELSE IF e[b] > 12 THEN 12 ELSE e[b])
               /\ (e = [low |-> 100, mid |-> -999, high |-> 5]
                   => decks'[d].eq = [low |-> 12, mid |-> -12, high |-> 5])
               /\ decks'[d].lowEQ = decks'[d].eq.low
               /\ decks'[d].midEQ = decks'[d].eq.mid
               /\ decks'[d].highEQ = decks'[d].eq.high
               /\ Transport(decks'[d]) = Transport(decks[d])]_vars

\* C11 witness: a PLAYING deck past position 0 whose volume was set below 0
\* and whose EQ was set to {100, -999, 5}
C11_Witness ==
  \E d \in DeckIds :
    /\ decks[d].isPlaying
    /\ LivePos(d) > 0
    /\ decks[d].volumeVal = 0
    /\ decks[d].eq = [low |-> 12, mid |-> -12, high |-> 5]

\* C12: after construction and after any setFX calls the FX nodes are in
\* range: delay time in [0, 5 s], feedback in [0, 0.6], lowpass cutoff in
\* [40, 20000], wet gain in [0, 1], and dry gain = 1 - wet gain;
\* setFX({wet: 1}) gives dry 0 and wet 1.
C12_FXInRangeDryPlusWetIsOne ==
  /\ [](\A d \in DeckIds :
         /\ decks[d].delay \in 0 .. 5000
         /\ decks[d].delayFeedbackGain \in 0 .. 600
         /\ decks[d].fxLowpass \in 40 .. 20000
         /\ decks[d].wetGain \in 0 .. Unit
         /\ decks[d].dryGain = Unit - decks[d].wetGain)
  /\ [][\A d \in DeckIds :
         SetDeckFX(d, [wet |-> Unit])
         => decks'[d].dryGain = 0 /\ decks'[d].wetGain = Unit]_vars

\* C12 witness: setFX calls with a delay time of 9 s, a feedback of 0.9, a
\* cutoff of 10 Hz and a wet mix of 3 have all been applied to one deck
C12_Witness ==
  \E d \in DeckIds :
    /\ decks[d].fx.delayTime = 9000 /\ decks[d].delay = 5000
    /\ decks[d].fx.delayFeedback = 900 /\ decks[d].delayFeedbackGain = 600
    /\ decks[d].fx.lowpassCutoff = 10 /\ decks[d].fxLowpass = 40
    /\ decks[d].fx.wet = 3 * Unit /\ decks[d].wetGain = Unit
    /\ decks[d].dryGain = 0

\* the deck's effective position: live while it reports PLAYING, stored otherwise
EffectivePos(d) == IF decks[d].isPlaying THEN LivePos(d) ELSE decks[d].position

\* C13 as claimed: setLoop(true, L) on a loaded deck at effective position p
\* sets the window to [p, min(p + L, duration)], for every L;
\* setLoop(false, _) leaves the window as it was.
C13_LoopWindowAsClaimed ==
  [][\A d \in DeckIds, len \in LoopLengthInputs :
       /\ (Loaded(d) /\ SetDeckLoop(d, TRUE, len))
          => /\ decks'[d].loopStart = EffectivePos(d)
             /\ decks'[d].loopEnd =
                  Min(EffectivePos(d) + len, BufferDuration(decks[d].buffer))
       /\ SetDeckLoop(d, FALSE, len)
          => /\ decks'[d].loopStart = decks[d].loopStart
             /\ decks'[d].loopEnd = decks[d].loopEnd]_vars

\* C13 amended: as C13 for a length L other than 0; with L omitted or 0 the
\* window is [p, min(p + 1 s, duration)].
C13_LoopWindowCaptured ==
  [][\A d \in DeckIds, len \in LoopLengthInputs :
       /\ (Loaded(d) /\ SetDeckLoop(d, TRUE, len))
          => /\ decks'[d].loopEnabled
             /\ decks'[d].loopStart = EffectivePos(d)
             /\ decks'[d].loopEnd =
                  Min(EffectivePos(d) + (IF len = 0 THEN TicksPerSecond ELSE len),
                      BufferDuration(decks[d].buffer))
       /\ SetDeckLoop(d, FALSE, len)
          => /\ ~decks'[d].loopEnabled
             /\ decks'[d].loopStart = decks[d].loopStart
             /\ decks'[d].loopEnd = decks[d].loopEnd]_vars

\* C13 witness: setLoop(true, 1 tick) was called on a deck playing at a live
\* position past 0: the restarted source loops over [p, p + 1], inside the track
C13_Witness ==
  \E d \in DeckIds :
    /\ decks[d].loopEnabled
    /\ decks[d].loopStart > 0
    /\ decks[d].loopStart > decks[d].position
    /\ decks[d].loopEnd = decks[d].loopStart + 1
    /\ decks[d].loopEnd < BufferDuration(decks[d].buffer)
    /\ decks[d].source.state = "started"
    /\ decks[d].source.loop
    /\ decks[d].source.loopStart = decks[d].loopStart

\* C14: on a loaded deck the loop window satisfies
\* 0 <= loopStart <= loopEnd <= duration in every reachable state.
C14_LoopWindowOrdered ==
  \A d \in DeckIds :
    Loaded(d)
    => /\ 0 <= decks[d].loopStart
       /\ decks[d].loopStart <= decks[d].loopEnd
       /\ decks[d].loopEnd <= BufferDuration(decks[d].buffer)

\* C15: jog(delta) on a loaded deck at effective position e moves to a target
\* q with |q - e| <= 5 s and 0 <= q <= duration; on a PLAYING deck q goes
\* through the fade-replace of seek (ramp to 0, swap scheduled at q, the old
\* source left running), on a STOPPED deck q becomes the stored position and
\* no source is created.
C15_JogBounded ==
  [][\A d \in DeckIds, delta \in JogDeltaInputs :
       (Loaded(d) /\ JogDeck(d, delta))
       => LET e == EffectivePos(d)
              q == IF decks[d].isPlaying THEN decks'[d].restartTimer.offset
                   ELSE decks'[d].position
          IN /\ Abs(q - e) <= maxStep
             /\ 0 <= q
             /\ q <= BufferDuration(decks[d].buffer)
             /\ decks[d].isPlaying
                => /\ decks'[d].restartTimer.pending
                   /\ decks'[d].restartTimer.due = now + TimerTicks
                   /\ RampsTo(decks'[d], 0, now + FadeTicks)
                   /\ decks'[d].source = decks[d].source
                   /\ decks'[d].isPlaying
             /\ ~decks[d].isPlaying
                => /\ decks'[d].source = NoSource
                   /\ decks'[d].live = 0
                   /\ ~decks'[d].isPlaying
                   /\ ~decks'[d].restartTimer.pending]_vars

\* C16: the context and the two decks are created at most once: once they
\* exist they stay, and every engine call acts on the decks as the earlier
\* calls left them, the other deck untouched.
C16_DecksCreatedOnce ==
  [][audioCtx
     => /\ audioCtx'
        /\ \A d \in DeckIds :
             /\ PlayDeck(d) => decks' = [decks EXCEPT ![d] = play(decks[d])]
             /\ PauseDeck(d) => decks' = [decks EXCEPT ![d] = pause(decks[d])]
             /\ \A v \in VolumeInputs :
                  SetDeckVolume(d, v) => decks' = [decks EXCEPT ![d] = setVolume(decks[d], v)]
             /\ \A e \in EQInputs :
                  SetDeckEQ(d, e) => decks' = [decks EXCEPT ![d] = setEQ(decks[d], e)]
             /\ \A s \in FXInputs :
                  SetDeckFX(d, s) => decks' = [decks EXCEPT ![d] = setFX(decks[d], s)]
             /\ \A f \in Files : LoadDeckFromFile(d, f) => decks' = decks
             /\ Loaded(d) => Loaded(d)']_vars

\* C16 witness: after the creating call, further calls have left deck A loaded
\* with a changed volume, EQ and FX and deck B playing
C16_Witness ==
  /\ audioCtx
  /\ Loaded("A")
  /\ decks["A"].volumeVal # Unit
  /\ decks["A"].eq # NewDeck.eq
  /\ decks["A"].fx # NewDeck.fx
  /\ decks["B"].isPlaying

\* C17: checkHold(id, cond, T) is an armed-timer debounce per id: with cond
\* true and the timer clear it starts the timer and returns false; with cond
\* true and the timer running it returns true exactly when now - start >= T and
\* leaves the timer; with cond false it clears the timer and returns false;
\* the timers of the other ids are never changed.
C17_CheckHoldDebounce ==
  [][\A id \in ProbeIds, c \in BOOLEAN, T \in ProbeHoldTimes :
       CheckHoldCall(id, c, T)
       => LET start == mapper.holdTimers[id]
          IN /\ (c /\ start = NoHold)
                => /\ mapper'.holdTimers[id] = wall
                   /\ ~hud'.ret.result
             /\ (c /\ start # NoHold)
                => /\ hud'.ret.result <=> (wall - start >= T)
                   /\ mapper'.holdTimers[id] = start
             /\ ~c => /\ mapper'.holdTimers[id] = NoHold
                       /\ ~hud'.ret.result
             /\ \A other \in ProbeIds \ {id} :
                  mapper'.holdTimers[other] = mapper.holdTimers[other]]_vars

\* C17 witness: a call with a true condition has just returned true for one id,
\* its timer started the full hold time ago, while the other id's timer,
\* started later, is still running
C17_Witness ==
  \E id \in ProbeIds, other \in ProbeIds :
    /\ hud.ret = [id |-> id, cond |-> TRUE, ms |-> HoldMs, result |-> TRUE]
    /\ mapper.holdTimers[id] = wall - HoldMs
    /\ mapper.holdTimers[other] > mapper.holdTimers[id]

\* the gesture a hold-triggered engine call confirms
GestureOf(op) == IF op = "playDeck" THEN "openPalm" ELSE "fist"

\* C18: the camera controller dispatches playDeck(d) or pauseDeck(d) for a hand
\* only if, up to and including the dispatching frame, every processed frame of
\* the last 300 ms or more had that hand present, on deck d, showing the
\* gesture; a frame without the hand, or with the hand on the other deck, ends
\* the hold.
C18_HoldConfirmedOnlyIfSustained ==
  \A k \in 1 .. Len(hud.calls) :
    LET c == hud.calls[k]
        id == HoldId(GestureOf(c.op), c.hand, c.deck)
    IN c.op \in {"playDeck", "pauseDeck"}
       => /\ hud.since[id] # 0
          /\ hud.at - hud.since[id] >= HoldMs

\* C19: a hand index whose centroid was last at or beyond a threshold keeps
\* that deck in every following frame with its centroid strictly between the
\* thresholds; at or below 0.45 it is assigned A, at or above 0.55 B.
C19_HysteresisKeepsRecordedDeck ==
  [][\A i \in HandIndexes :
       hud'.seen[i].deck # NoDeck /\ hud'.seen # hud.seen
       => LET x == hud'.seen[i].x
          IN /\ x <= leftThresh => hud'.seen[i].deck = "A"
             /\ x >= rightThresh => hud'.seen[i].deck = "B"
             /\ (leftThresh < x /\ x < rightThresh /\ hud.crossed[i] # NoDeck)
                => hud'.seen[i].deck = hud.crossed[i]]_vars

\* C19 witness: a hand that was at or beyond the right threshold is at 0.49,
\* left of the midpoint, and is still assigned B
C19_Witness ==
  \E i \in HandIndexes :
    /\ hud.crossed[i] = "B"
    /\ hud.seen[i] = [x |-> 49, deck |-> "B"]

\* C20: for every hand index and every two consecutive frames with its centroid
\* strictly between 0.45 and 0.55 in both, the deck assigned in the second frame
\* is the deck assigned in the first, also before the hand has crossed a
\* threshold.
C20_NoFlickerNearCentre ==
  [][\A i \in HandIndexes :
       (/\ hud.seen[i].deck # NoDeck
        /\ leftThresh < hud.seen[i].x /\ hud.seen[i].x < rightThresh
        /\ hud'.seen[i].deck # NoDeck
        /\ leftThresh < hud'.seen[i].x /\ hud'.seen[i].x < rightThresh)
       => hud'.seen[i].deck = hud.seen[i].deck]_vars

\* C21: in every frame, the deck that receives a hand's play, pause and jog
\* calls from the camera controller is the deck mapHandsToControls assigned
\* that hand to by the two-threshold rule.
C21_OneDeckPerHand ==
  \A k \in 1 .. Len(hud.calls) :
    LET c == hud.calls[k]
    IN (c.hand # -1 /\ hud.seen[c.hand].deck # NoDeck)
       => c.deck = hud.seen[c.hand].deck

\* the saved range of a finger, NoRange if nothing is saved for it
SavedRange(finger) ==
  IF getSaved(storage, TRUE) = NoCalibration THEN NoRange
  ELSE getSaved(storage, TRUE).ranges[finger]

\* the pre-smoothing value as the claim states it, in thousandths
ClaimedTarget(r, y) ==
  IF r = NoRange THEN clamp(Unit - y, 0, Unit)
  ELSE IF r.min = r.max THEN Unit \div 2
  ELSE clamp(Unit - ((y - r.min) * Unit) \div (r.max - r.min), 0, Unit)

ControlsInRange(c) ==
  /\ 0 <= c.volume /\ c.volume <= Unit
  /\ \A b \in {"low", "mid", "high"} : -12 <= c.eq[b] /\ c.eq[b] <= 12

\* C23: each mapFingerY call after the first for a finger returns
\* prev + alpha (target - prev), prev being what the call before it for that
\* finger returned: the result lies between prev and target and within 0 .. 1,
\* and the controls derived from any frame are within volume 0 .. 1 and
\* EQ -12 .. +12 dB.
C23_SmoothingPersistsAndStaysInRange ==
  /\ (hud.map.calls > 0 /\ hud.map.prev # NoSmooth)
     => LET target == ClaimedTarget(SavedRange(hud.map.finger), hud.map.y)
            prev == hud.map.prev
        IN /\ hud.map.result = prev + (smoothingAlpha * (target - prev)) \div 100
           /\ Min(prev, target) <= hud.map.result
           /\ hud.map.result <= Max(prev, target)
  /\ hud.map.calls > 0 => (0 <= hud.map.result /\ hud.map.result <= Unit)
  /\ \A y \in MapYs, d \in DeckIds :
       ControlsInRange(
         mapHandsToControls(mapper, getSaved(storage, TRUE), <<AllTips(y)>>).controls[d])

\* C23 witness: a second call for a finger has moved its value from what the
\* first call returned towards a different target, without reaching it
C23_Witness ==
  /\ hud.map.calls > 1 /\ hud.map.prev # NoSmooth
  /\ hud.map.result # hud.map.prev
  /\ hud.map.result # ClaimedTarget(SavedRange(hud.map.finger), hud.map.y)

\* the frame that made the last step sent deck d a volume or EQ update
Updated(d) ==
  \E k \in 1 .. Len(hud.calls) :
    hud.calls[k].deck = d /\ hud.calls[k].op \in {"setDeckVolume", "setDeckEQ"}

\* C24: in every frame (a step of the running camera), a deck is reported
\* assigned exactly when a non-empty hand was assigned to it; a deck no hand was assigned to gets no
\* setDeckVolume or setDeckEQ call and keeps its stored volume and EQ.
C24_UntouchedDeckKeepsControls ==
  [][(hud.running /\ hud'.running)
     => \A d \in DeckIds :
          LET touched == \E i \in HandIndexes : hud'.seen[i].deck = d
          IN /\ hud'.assigned[d] <=> touched
             /\ Updated(d)' <=> touched
             /\ ~touched
                => /\ decks'[d].volumeVal = decks[d].volumeVal
                   /\ decks'[d].lowEQ = decks[d].lowEQ
                   /\ decks'[d].midEQ = decks[d].midEQ
                   /\ decks'[d].highEQ = decks[d].highEQ]_vars

\* C24 witness: a frame with one hand, assigned to deck A, has updated deck A
\* and only deck A, whose volume is no longer the one deck B still has
C24_Witness ==
  /\ hud.seen[0].deck = "A" /\ hud.seen[1].deck = NoDeck
  /\ Updated("A") /\ ~Updated("B")
  /\ decks["A"].volumeVal # decks["B"].volumeVal

\* the least and the greatest of a non-empty set of heights
Least(ys) == CHOOSE a \in ys : \A b \in ys : a <= b

Greatest(ys) == CHOOSE a \in ys : \A b \in ys : a >= b

\* C25: during a session started by startCalibration, each finger's range is
\* null if no absorbed sample contained the finger and otherwise the least and
\* the greatest of the heights absorbed for it, and sampleCount is the number of
\* absorbSample calls since startCalibration.
C25_RangesAreMinMaxOfSamples ==
  hud.cal.session
  => /\ getCalibration(mapper) # NoCalibration
     /\ mapper.calibration.sampleCount = hud.cal.count
     /\ \A f \in Fingers :
          mapper.calibration.ranges[f] =
            IF hud.cal.absorbed[f] = {} THEN NoRange
            ELSE [min |-> Least(hud.cal.absorbed[f]), max |-> Greatest(hud.cal.absorbed[f])]

\* C25 witness: a session has absorbed three samples, two heights for the index
\* finger and none for the ring finger
C25_Witness ==
  /\ hud.cal.session
  /\ hud.cal.count = 3
  /\ hud.cal.absorbed["index"] = {200, 700}
  /\ mapper.calibration.ranges["index"] = [min |-> 200, max |-> 700]

\* C26: outside a session (on a freshly constructed mapper, or after
\* finishCalibration) getCalibration() reports no calibration in progress, so
\* that the frames of the tracker are not absorbed.
C26_NoCalibrationOutsideSession ==
  ~hud.cal.session => getCalibration(mapper) = NoCalibration

\* C27: finishCalibration returns the accumulated record, the record getSaved()
\* reads back equals it, getCalibration() is null afterwards, a second
\* finishCalibration without a new startCalibration returns null and leaves the
\* saved record unchanged, and mapFingerY then maps against the saved ranges
\* (the store working).
C27_FinishSnapshotsPersistsClears ==
  [][\A ok \in BOOLEAN :
       FinishCalibrationCall(ok)
       => /\ IF getCalibration(mapper) # NoCalibration
             THEN /\ hud'.cal.out = [mapper.calibration EXCEPT !.timestamp = wall]
                  /\ getCalibration(mapper') = NoCalibration
                  /\ ok => /\ getSaved(storage', TRUE) = hud'.cal.out
                            /\ \A f \in Fingers, y \in MapYs :
                                 mapFingerY(NewMapper, getSaved(storage', TRUE), f, y).value
                                   = ClaimedTarget(hud'.cal.out.ranges[f], y)
             ELSE /\ hud'.cal.out = NoCalibration
                  /\ storage' = storage
                  /\ mapper' = mapper
          /\ hud.cal.op = "finishCalibration"
             => (hud'.cal.out = NoCalibration /\ storage' = storage)]_vars

\* C27 witness: a finishCalibration with the store working has returned a
\* record of two samples with a range for the index finger and none for the
\* ring finger, and that record is the saved one
C27_Witness ==
  /\ hud.cal.op = "finishCalibration" /\ hud.cal.ok
  /\ hud.cal.out # NoCalibration
  /\ hud.cal.out.sampleCount = 2
  /\ hud.cal.out.ranges["index"] = [min |-> 700, max |-> 700]
  /\ hud.cal.out.ranges["ring"] = NoRange
  /\ getSaved(storage, TRUE) = hud.cal.out
  /\ getCalibration(mapper) = NoCalibration

\* C28: after ensureCalibration() has returned with the store working, every
\* tracked finger has a saved range that is not null, whatever sessions were
\* finished before.
C28_EnsuredRangesUsable ==
  (hud.cal.op = "ensureCalibration" /\ hud.cal.ok)
  => /\ getSaved(storage, TRUE) # NoCalibration
     /\ \A f \in Fingers : getSaved(storage, TRUE).ranges[f] # NoRange

\* C29: with the store failing, the constructor (load), getSaved,
\* finishCalibration and ensureCalibration do not raise; the constructed mapper
\* is the one constructed with nothing saved; finishCalibration still returns
\* the snapshot and clears the calibration in progress; nothing is written; and
\* mapFingerY returns what it returns with nothing saved.
C29_StorageErrorsSwallowed ==
  [][/\ ConstructCall(FALSE)
        => (~hud'.cal.threw /\ mapper' = ConstructMapper(NoItem, TRUE))
     /\ FinishCalibrationCall(FALSE)
        => /\ ~hud'.cal.threw
           /\ storage' = storage
           /\ getCalibration(mapper) # NoCalibration
              => /\ hud'.cal.out = [mapper.calibration EXCEPT !.timestamp = wall]
                 /\ getCalibration(mapper') = NoCalibration
     /\ EnsureCalibrationCall(FALSE)
        => (~hud'.cal.threw /\ storage' = storage)
     /\ getSaved(storage, FALSE) = NoCalibration
     /\ \A f \in Fingers, y \in MapYs :
          mapFingerY(mapper, getSaved(storage, FALSE), f, y)
            = mapFingerY(mapper, getSaved(NoItem, TRUE), f, y)]_vars

\* C29 witness: a finishCalibration during which the store failed has returned
\* the record of a session with samples, the mapper has no calibration in
\* progress, and a calibration saved earlier is still the saved one
C29_Witness ==
  /\ hud.cal.op = "finishCalibration" /\ ~hud.cal.ok /\ ~hud.cal.threw
  /\ hud.cal.out # NoCalibration
  /\ hud.cal.out.sampleCount > 0
  /\ getCalibration(mapper) = NoCalibration
  /\ storage # NoItem
  /\ getSaved(storage, TRUE) # hud.cal.out

\* C30: of any two consecutive submissions of a running tracker, the second
\* is at least 1000/fpsLimit ms of loop time after the first, and no frame is
\* submitted while the video is not ready.
C30_AtMostOneSubmissionPerMinDelta ==
  /\ hud.tracker.prev # NoSubmit => hud.tracker.last - hud.tracker.prev >= minDelta
  /\ hud.tracker.sentReady

\* C31: a tracker never has more than one detection in flight and never more
\* than one frame loop, whatever the order of start() and stop() calls.
C31_OneDetectionOneLoop ==
  /\ Cardinality({l \in LoopIds : hud.tracker.loops[l].pc = "sending"}) <= 1
  /\ Cardinality({l \in LoopIds : hud.tracker.loops[l] # NoLoop}) <= 1

\* C32: once stop() has returned, and until start() is called again, the
\* tracker submits no frame to the detector.
C32_NoSubmissionAfterStop == ~hud.tracker.sentStopped

\* C33: when hands.send settles, with results, with a callback that throws or
\* with a failure, no exception leaves the loop, the loop asks for its next
\* animation frame, the tracker keeps running and the mapper is untouched; on
\* a failure the callback is not called.
C33_DetectorFailureSwallowed ==
  [][\A l \in LoopIds :
       (hud.tracker.loops[l].pc = "sending" /\ hud'.tracker.loops[l].pc # "sending")
       => /\ hud'.tracker.loops[l].pc = "raf"
          /\ ~hud'.tracker.raised
          /\ hud'.tracker.running = hud.tracker.running
          /\ mapper' = mapper
          /\ (hud'.tracker.outcome = "rejected" => ~hud'.tracker.called)]_vars

\* C33: a frame is being submitted after a frame the detector failed on
C33_Witness ==
  /\ hud.tracker.failedAt # NoSubmit
  /\ hud.tracker.outcome = "rejected"
  /\ hud.tracker.last > hud.tracker.failedAt
  /\ \E l \in LoopIds : hud.tracker.loops[l].pc = "sending"

\* the value the controls c report for finger f
Reported(c, f) ==
  IF f = "index" THEN c.volume
  ELSE IF f = "thumb" THEN c.eq.high
  ELSE IF f = "middle" THEN c.eq.low
  ELSE c.eq.mid

\* C34: after mapHandsToControls on a frame with one hand that has landmarks,
\* the deck of that hand is marked assigned and reports, for a finger without
\* tip, volume 0.5 or 0 dB, with that finger's accumulator as it was, and for
\* a finger with a tip its smoothed mapped value; a hand without landmarks
\* gets no deck, and a deck without hand reports the initial controls.
C34_MissingLandmarksDefault ==
  LET g == hud.mapped
      real == {i \in HandIndexes : i < Len(g.hands) /\ ~g.hands[i + 1].empty}
      saved == getSaved(storage, TRUE)
  IN /\ \A i \in HandIndexes : (g.deckOf[i] # NoDeck) <=> (i \in real)
     /\ \A d \in DeckIds :
           IF \E i \in real : g.deckOf[i] = d
           THEN g.controls[d].assigned
           ELSE g.controls[d] = NoControls[d]
     /\ real = {} => mapper.lastSmoothed = g.before
     /\ \A i \in real : \A f \in Fingers :
           LET y == g.hands[i + 1].tips[f]
               sm == smoothed(g.before[f], mapTarget(saved, f, y))
               reported == Reported(g.controls[g.deckOf[i]], f)
           IN IF y = NoTip
              THEN /\ reported = (IF f = "index" THEN Unit \div 2 ELSE 0)
                   /\ mapper.lastSmoothed[f] = g.before[f]
              ELSE /\ reported = (IF f = "index" THEN sm ELSE eqGain(sm))
                   /\ mapper.lastSmoothed[f] = sm

\* C34: a hand without index tip was mapped after the index accumulator had
\* moved away from one half, together with a hand without landmarks
C34_Witness ==
  /\ hud.mapped.hands = <<NoLandmarks, Lacks("index", 200)>>
  /\ hud.mapped.before["index"] \notin {NoSmooth, Unit \div 2}
  /\ hud.mapped.controls["A"].assigned
  /\ hud.mapped.controls["A"].volume = Unit \div 2
  /\ hud.mapped.controls["A"].eq.high # 0

\* C35: when seek(t) returns on a playing deck, getCurrentTime reports the
\* target t, clamped to the track.
C35_SeekEffectiveAtOnce ==
  [][\A d \in TransportDecks, t \in SeekTargets :
       (decks[d].isPlaying /\ SeekDeck(d, t))
       => getPosition(decks'[d]) = clamp(t, 0, decks[d].duration)]_vars

\* C36: a deck never has more than one swap timer outstanding; a seek or jog
\* on a playing deck leaves exactly one, due one fade window after the call
\* and set to the target of that call, also when a swap was pending before;
\* and the swap, when it fires, leaves none, one source, started at the target
\* of the last call.
C36_OverlappingSeeksCoalesce ==
  [][\A d \in TransportDecks :
       /\ decks'[d].timers <= 1
       /\ decks'[d].restartTimer.pending <=> decks'[d].timers = 1
       /\ \A t \in SeekTargets :
            (decks[d].isPlaying /\ SeekDeck(d, t))
            => decks'[d].restartTimer =
                 [pending |-> TRUE, due |-> now + TimerTicks,
                  offset |-> clamp(t, 0, decks[d].duration)]
       /\ \A delta \in SeekJogs :
            (decks[d].isPlaying /\ JogDeck(d, delta))
            => decks'[d].restartTimer =
                 [pending |-> TRUE, due |-> now + TimerTicks,
                  offset |-> jogTarget(getPosition(decks[d]), delta, decks[d].duration)]
       /\ RestartTimerFires(d)
          => /\ decks'[d].timers = 0
             /\ decks'[d].live = 1
             /\ decks'[d].source.state = "started"
             /\ decks'[d].source.offset = decks[d].restartTimer.offset
             /\ decks'[d].startTime = now - decks[d].restartTimer.offset]_vars

\* C36: a seek to 1 arrived while the gain was on its way down from an
\* earlier seek or jog, and one swap is outstanding, set to 1
C36_Witness ==
  /\ decks["A"].isPlaying
  /\ decks["A"].timers = 1
  /\ decks["A"].restartTimer.offset = 1
  /\ decks["A"].restartTimer.due = now + TimerTicks
  /\ decks["A"].position = 1
  /\ decks["A"].gain.ramp.active
  /\ decks["A"].gain.ramp.v1 = 0
  /\ decks["A"].gain.ramp.v0 < decks["A"].volumeVal
  /\ decks["A"].gain.ramp.v0 > 0

\* C37: no deck is left with a started source whose gain has settled at 0
\* while no swap is pending to ramp it up again.
C37_NoSourceStuckSilent ==
  \A d \in TransportDecks :
    (decks[d].source.state = "started" /\ ~decks[d].restartTimer.pending
       /\ ~decks[d].gain.ramp.active)
    => decks[d].gain.value > 0

\* C38: for a loaded deck the position getCurrentTime reports and the stored
\* position lie between 0 and the duration of the track.
C38_PositionWithinTrack ==
  \A d \in TransportDecks :
    decks[d].buffer # 0
    => /\ getCurrentTime(d) \in 0 .. decks[d].duration
       /\ decks[d].position \in 0 .. decks[d].duration

\* C39: when the last of the loadDeckFromFile calls waiting for a deck
\* completes, the deck holds the buffer of the call that was issued last.
C39_LaterLoadWins ==
  [][\A i \in 1 .. MaxOverlap :
       (/\ DecodeResolved(i)
        /\ \A k \in 1 .. Len(decoding) : k # i => decoding[k].deck # decoding[i].deck)
       => decks'[decoding[i].deck].buffer = decoding[i].latest]_vars

\* C40: two mappers that are given the same hand on deck A in every frame
\* report the same volume and EQ for deck A, whatever the hands on deck B.
C40_DeckAIndependentOfHandB ==
  /\ hud.mapped.controls["A"].volume = hud.twin.controls["A"].volume
  /\ hud.mapped.controls["A"].eq = hud.twin.controls["A"].eq

====
